---- MODULE Spec2Model ----
(***************************************************************************)
(* The paper-trading ledgers of spy-iron-condor-pro.                        *)
(*                                                                         *)
(* The repository carries three ledgers:                                   *)
(*   "paper"          src/src/paper.py      PaperTradingPortfolio, closes   *)
(*                    a position at a percentage of its entry credit;       *)
(*   "paper_trading"  src/paper_trading.py  PaperTradingPortfolio, closes   *)
(*                    a position at a dollar closing cost;                  *)
(*   "app"            src/app.py            the session dictionary          *)
(*                    st.session_state.paper_portfolio, closes a position   *)
(*                    at the live value of its four legs.                   *)
(* A session runs one of them (impl); its portfolio lives in               *)
(* st.session_state.paper_portfolio.                                       *)
(*                                                                         *)
(* Money is in whole dollars.  Per-share prices (spread credits, bids,     *)
(* asks) are carried in cents, which is the value the code obtains when it *)
(* multiplies a per-share price by the contract multiplier 100.  A close   *)
(* percentage is carried as an integer percent (the slider's value before  *)
(* it is divided by 100).  Wall-clock stamps (entry_time, close_time,      *)
(* close_date, days_held) are never read by a ledger and are left out.     *)
(*                                                                         *)
(* The analysis functions are pure and come in two variants each:          *)
(*   scorer and strike selector   src/app.py and src/src/analysis.py;      *)
(*   pricing model (Greeks)       src/app.py and src/src/greeks.py.        *)
(* Each family has its own specification, which applies the functions to   *)
(* inputs drawn from bounded sets.                                         *)
(***************************************************************************)
EXTENDS Integers, Sequences, FiniteSets, TLC

VARIABLES impl, session_state, last_error, analysis

vars == <<impl, session_state, last_error, analysis>>

\* Bound of the model: positions opened in one session.
MaxTrades == 2

\* PaperTradingPortfolio(initial_cash=10000.0); app.py's 'cash': 10000.00
INITIAL_CASH == 10000

\* Python's None, and a present value (so that None never meets a number).
None == <<>>
Some(v) == <<v>>

\* d[k] = v on a dict that may not have k yet.
SetItem(d, k, v) == [x \in DOMAIN d \cup {k} |-> IF x = k THEN v ELSE d[x]]

\* sum(p[k] for p in s)
RECURSIVE SumField(_, _)
SumField(s, k) == IF s = <<>> THEN 0 ELSE Head(s)[k] + SumField(Tail(s), k)

\* [p for p in s if p[k] > 0] and [p for p in s if p[k] < 0]
RECURSIVE Positive(_, _)
Positive(s, k) ==
    IF s = <<>> THEN <<>>
    ELSE IF Head(s)[k] > 0 THEN <<Head(s)>> \o Positive(Tail(s), k)
         ELSE Positive(Tail(s), k)

RECURSIVE Negative(_, _)
Negative(s, k) ==
    IF s = <<>> THEN <<>>
    ELSE IF Head(s)[k] < 0 THEN <<Head(s)>> \o Negative(Tail(s), k)
         ELSE Negative(Tail(s), k)

Max(a, b) == IF a >= b THEN a ELSE b
Abs(a) == IF a < 0 THEN -a ELSE a

RECURSIVE Gcd(_, _)
Gcd(a, b) == IF b = 0 THEN a ELSE Gcd(b, a % b)

\* Python's true division n / d, kept exact as a fraction in lowest terms;
\* den = 0 stands for the ZeroDivisionError of a division by zero.
Div(n, d) ==
    IF d = 0 THEN [num |-> 0, den |-> 0]
    ELSE LET g == Gcd(Abs(n), Abs(d))
             sgn == IF d < 0 THEN -1 ELSE 1
         IN  [num |-> sgn * (n \div g), den |-> sgn * (d \div g)]

\* an int or float literal as a fraction
Num(n) == [num |-> n, den |-> 1]

\* list.pop(i), i counted from 1
Pop(s, i) == [j \in 1..(Len(s) - 1) |-> IF j < i THEN s[j] ELSE s[j + 1]]

\* index of the first position with this id, 0 when there is none
\* (for ... if pos['id'] == position_id / next(..., None))
FirstWithId(positions, position_id) ==
    IF \E i \in 1..Len(positions) : positions[i].id = position_id
    THEN CHOOSE i \in 1..Len(positions) :
            /\ positions[i].id = position_id
            /\ \A j \in 1..(i - 1) : positions[j].id # position_id
    ELSE 0

\* list.remove(x): drops the first element equal to x
ListRemove(s, x) ==
    IF \E i \in 1..Len(s) : s[i] = x
    THEN Pop(s, CHOOSE i \in 1..Len(s) :
                    s[i] = x /\ \A j \in 1..(i - 1) : s[j] # x)
    ELSE s

(***************************************************************************)
(* src/src/paper.py: the percentage ledger                                 *)
(***************************************************************************)

Paper_init(initial_cash) ==
    [cash |-> initial_cash,
     initial_cash |-> initial_cash,
     positions |-> <<>>,
     closed_positions |-> <<>>,
     trade_count |-> 0,
     total_pnl |-> 0]

\* Mutant: the open does not compare the margin with the cash.
Paper_open_position_unchecked(self, setup, quantity) ==
    LET credit == setup.max_profit * quantity
        max_loss == setup.max_loss * quantity
        margin_required == max_loss
        trade_count == self.trade_count + 1
        position ==
            [id |-> trade_count,
             setup |-> setup,
             quantity |-> quantity,
             entry_credit |-> credit,
             max_loss |-> max_loss,
             margin_held |-> margin_required,
             expiration |-> setup.short_call.expiration_date,
             status |-> "open",
             current_pnl |-> 0]
    IN  [self |-> [self EXCEPT !.trade_count = trade_count,
                               !.cash = @ - margin_required,
                               !.positions = Append(@, position)],
         ok |-> TRUE, msg |-> "Opened IC"]

\* Mutant: the trade counter is advanced before the funds check.
Paper_open_position_counts_rejected(self, setup, quantity) ==
    LET credit == setup.max_profit * quantity
        max_loss == setup.max_loss * quantity
        margin_required == max_loss
    IN  IF margin_required > self.cash
        THEN [self |-> [self EXCEPT !.trade_count = @ + 1], ok |-> FALSE, msg |-> "Insufficient margin"]
        ELSE LET trade_count == self.trade_count + 1
                 position ==
                    [id |-> trade_count,
                     setup |-> setup,
                     quantity |-> quantity,
                     entry_credit |-> credit,
                     max_loss |-> max_loss,
                     margin_held |-> margin_required,
                     expiration |-> setup.short_call.expiration_date,
                     status |-> "open",
                     current_pnl |-> 0]
             IN  [self |-> [self EXCEPT !.trade_count = trade_count,
                                        !.cash = @ - margin_required,
                                        !.positions = Append(@, position)],
                  ok |-> TRUE, msg |-> "Opened IC"]

Paper_open_position(self, setup, quantity) ==
    LET credit == setup.max_profit * quantity
        max_loss == setup.max_loss * quantity
        margin_required == max_loss
    IN  IF margin_required > self.cash
        THEN [self |-> self, ok |-> FALSE, msg |-> "Insufficient margin"]
        ELSE LET trade_count == self.trade_count + 1
                 position ==
                    [id |-> trade_count,
                     setup |-> setup,
                     quantity |-> quantity,
                     entry_credit |-> credit,
                     max_loss |-> max_loss,
                     margin_held |-> margin_required,
                     expiration |-> setup.short_call.expiration_date,
                     status |-> "open",
                     current_pnl |-> 0]
             IN  [self |-> [self EXCEPT !.trade_count = trade_count,
                                        !.cash = @ - margin_required,
                                        !.positions = Append(@, position)],
                  ok |-> TRUE, msg |-> "Opened IC"]

\* Mutant: the close forgets the running total.
Paper_close_position_no_total(self, position_id, pnl_pct) ==
    LET i == FirstWithId(self.positions, position_id)
    IN  IF i = 0
        THEN [self |-> self, ok |-> FALSE, msg |-> "not found"]
        ELSE LET pos == self.positions[i]
                 realized_pnl == (pos.entry_credit * pnl_pct) \div 100
                 closed == SetItem([pos EXCEPT !.status = "closed"],
                                   "realized_pnl", realized_pnl)
                 mutated == [self.positions EXCEPT ![i] = closed]
             IN  [self |-> [self EXCEPT
                              !.cash = @ + pos.margin_held + realized_pnl,
                              !.positions = ListRemove(mutated, closed),
                              !.closed_positions = Append(@, closed)],
                  ok |-> TRUE, msg |-> "Closed IC"]

\* Mutant: the margin of the closed position is not given back to cash.
Paper_close_position_keeps_margin(self, position_id, pnl_pct) ==
    LET i == FirstWithId(self.positions, position_id)
    IN  IF i = 0
        THEN [self |-> self, ok |-> FALSE, msg |-> "not found"]
        ELSE LET pos == self.positions[i]
                 realized_pnl == (pos.entry_credit * pnl_pct) \div 100
                 closed == SetItem([pos EXCEPT !.status = "closed"],
                                   "realized_pnl", realized_pnl)
                 \* pos is mutated in place, then removed from the list
                 mutated == [self.positions EXCEPT ![i] = closed]
             IN  [self |-> [self EXCEPT
                              !.cash = @ + realized_pnl,
                              !.total_pnl = @ + realized_pnl,
                              !.positions = ListRemove(mutated, closed),
                              !.closed_positions = Append(@, closed)],
                  ok |-> TRUE, msg |-> "Closed IC"]

\* pnl_pct is in percent: realized_pnl = entry_credit * (pnl_pct / 100)
Paper_close_position(self, position_id, pnl_pct) ==
    LET i == FirstWithId(self.positions, position_id)
    IN  IF i = 0
        THEN [self |-> self, ok |-> FALSE, msg |-> "not found"]
        ELSE LET pos == self.positions[i]
                 realized_pnl == (pos.entry_credit * pnl_pct) \div 100
                 closed == SetItem([pos EXCEPT !.status = "closed"],
                                   "realized_pnl", realized_pnl)
                 \* pos is mutated in place, then removed from the list
                 mutated == [self.positions EXCEPT ![i] = closed]
             IN  [self |-> [self EXCEPT
                              !.cash = @ + pos.margin_held + realized_pnl,
                              !.total_pnl = @ + realized_pnl,
                              !.positions = ListRemove(mutated, closed),
                              !.closed_positions = Append(@, closed)],
                  ok |-> TRUE, msg |-> "Closed IC"]

Paper_get_stats(self) ==
    LET margin_in_use == SumField(self.positions, "margin_held")
        account_value == self.cash + margin_in_use
    IN  [cash |-> self.cash,
         margin_in_use |-> margin_in_use,
         account_value |-> account_value,
         total_pnl |-> account_value - self.initial_cash,
         open_positions |-> Len(self.positions),
         closed_trades |-> Len(self.closed_positions),
         total_trades |-> self.trade_count]

(***************************************************************************)
(* src/paper_trading.py: the closing-cost ledger                           *)
(***************************************************************************)

PT_init(initial_cash) ==
    [initial_cash |-> initial_cash,
     cash |-> initial_cash,
     positions |-> <<>>,
     closed_positions |-> <<>>,
     trade_history |-> <<>>]

\* Mutant: the id is derived from the open positions alone.
PT_open_iron_condor_len_id(self, a) ==
    LET credit100 == a.call_spread_credit + a.put_spread_credit
        max_loss_per_contract ==
            Max((a.call_long_strike - a.call_short_strike) * 100 - credit100,
                (a.put_short_strike - a.put_long_strike) * 100 - credit100)
        total_credit == credit100 * a.contracts
        margin_required == Abs(max_loss_per_contract) * a.contracts
    IN  IF margin_required > self.cash
        THEN [self |-> self, ret |-> None]
        ELSE LET position ==
                    [id |-> Len(self.positions) + 1,
                     status |-> "OPEN",
                     entry_date |-> a.entry_date,
                     expiration |-> a.expiration,
                     spy_price_entry |-> a.spy_price,
                     contracts |-> a.contracts,
                     call_short |-> a.call_short_strike,
                     call_long |-> a.call_long_strike,
                     put_short |-> a.put_short_strike,
                     put_long |-> a.put_long_strike,
                     call_spread_credit |-> a.call_spread_credit,
                     put_spread_credit |-> a.put_spread_credit,
                     total_credit |-> total_credit,
                     margin_required |-> margin_required,
                     max_loss |-> Abs(max_loss_per_contract) * a.contracts,
                     max_profit |-> total_credit,
                     notes |-> a.notes,
                     current_pnl |-> total_credit,
                     exit_date |-> None,
                     exit_spy_price |-> None,
                     exit_pnl |-> None]
             IN  [self |-> [self EXCEPT
                      !.cash = @ - margin_required,
                      !.positions = Append(@, position),
                      !.trade_history = Append(@,
                          [date |-> a.entry_date,
                           action |-> "OPEN",
                           position_id |-> position.id,
                           contracts |-> a.contracts,
                           credit |-> total_credit,
                           cash_change |-> -margin_required])],
                  ret |-> Some(position)]

\* a: the call's arguments; call_spread_credit and put_spread_credit in cents
PT_open_iron_condor(self, a) ==
    LET credit100 == a.call_spread_credit + a.put_spread_credit
        max_loss_per_contract ==
            Max((a.call_long_strike - a.call_short_strike) * 100 - credit100,
                (a.put_short_strike - a.put_long_strike) * 100 - credit100)
        total_credit == credit100 * a.contracts
        margin_required == Abs(max_loss_per_contract) * a.contracts
    IN  IF margin_required > self.cash
        THEN [self |-> self, ret |-> None]
        ELSE LET position ==
                    [id |-> Len(self.positions) + Len(self.closed_positions) + 1,
                     status |-> "OPEN",
                     entry_date |-> a.entry_date,
                     expiration |-> a.expiration,
                     spy_price_entry |-> a.spy_price,
                     contracts |-> a.contracts,
                     call_short |-> a.call_short_strike,
                     call_long |-> a.call_long_strike,
                     put_short |-> a.put_short_strike,
                     put_long |-> a.put_long_strike,
                     call_spread_credit |-> a.call_spread_credit,
                     put_spread_credit |-> a.put_spread_credit,
                     total_credit |-> total_credit,
                     margin_required |-> margin_required,
                     max_loss |-> Abs(max_loss_per_contract) * a.contracts,
                     max_profit |-> total_credit,
                     notes |-> a.notes,
                     current_pnl |-> total_credit,
                     exit_date |-> None,
                     exit_spy_price |-> None,
                     exit_pnl |-> None]
             IN  [self |-> [self EXCEPT
                      !.cash = @ - margin_required,
                      !.positions = Append(@, position),
                      !.trade_history = Append(@,
                          [date |-> a.entry_date,
                           action |-> "OPEN",
                           position_id |-> position.id,
                           contracts |-> a.contracts,
                           credit |-> total_credit,
                           cash_change |-> -margin_required])],
                  ret |-> Some(position)]

\* Mutant: the revaluation also looks the id up in the closed history.
PT_update_position_pnl_any(self, position_id, current_spy_price, current_call_spread_value, current_put_spread_value) ==
    LET i == FirstWithId(self.positions, position_id)
        j == FirstWithId(self.closed_positions, position_id)
        cost(pos) == (current_call_spread_value + current_put_spread_value) * pos.contracts
        upd(pos) == SetItem([pos EXCEPT !.current_pnl = pos.total_credit - cost(pos)],
                            "current_spy_price", current_spy_price)
    IN  IF i # 0 THEN [self EXCEPT !.positions[i] = upd(self.positions[i])]
        ELSE IF j # 0
             THEN [self EXCEPT !.closed_positions[j] = upd(self.closed_positions[j])]
             ELSE self

\* the two spread values in cents
PT_update_position_pnl(self, position_id, current_spy_price, current_call_spread_value, current_put_spread_value) ==
    LET i == FirstWithId(self.positions, position_id)
    IN  IF i = 0 THEN self
        ELSE LET pos == self.positions[i]
                 current_spread_cost ==
                    (current_call_spread_value + current_put_spread_value)
                        * pos.contracts
                 updated ==
                    SetItem([pos EXCEPT
                                !.current_pnl = pos.total_credit - current_spread_cost],
                            "current_spy_price", current_spy_price)
             IN  [self EXCEPT !.positions[i] = updated]

\* Mutant: the log of a close records the P&L as the cash change.
PT_close_position_log_pnl(self, position_id, exit_date, exit_spy_price, closing_cost) ==
    LET i == FirstWithId(self.positions, position_id)
    IN  IF i = 0 THEN [self |-> self, ret |-> None]
        ELSE LET pos == self.positions[i]
                 pnl == pos.total_credit - closing_cost
                 closed == [pos EXCEPT !.status = "CLOSED",
                                       !.exit_date = Some(exit_date),
                                       !.exit_spy_price = Some(exit_spy_price),
                                       !.exit_pnl = Some(pnl)]
             IN  [self |-> [self EXCEPT
                      !.cash = @ + pos.margin_required + pnl,
                      !.closed_positions = Append(@, closed),
                      !.positions = Pop(@, i),
                      !.trade_history = Append(@,
                          [date |-> exit_date,
                           action |-> "CLOSE",
                           position_id |-> position_id,
                           pnl |-> pnl,
                           cash_change |-> pnl])],
                  ret |-> Some(closed)]

\* Mutant: the P&L of a close is taken with the wrong sign.
PT_close_position_sign(self, position_id, exit_date, exit_spy_price, closing_cost) ==
    LET i == FirstWithId(self.positions, position_id)
    IN  IF i = 0 THEN [self |-> self, ret |-> None]
        ELSE LET pos == self.positions[i]
                 pnl == closing_cost - pos.total_credit
                 closed == [pos EXCEPT !.status = "CLOSED",
                                       !.exit_date = Some(exit_date),
                                       !.exit_spy_price = Some(exit_spy_price),
                                       !.exit_pnl = Some(pnl)]
             IN  [self |-> [self EXCEPT
                      !.cash = @ + pos.margin_required + pnl,
                      !.closed_positions = Append(@, closed),
                      !.positions = Pop(@, i),
                      !.trade_history = Append(@,
                          [date |-> exit_date,
                           action |-> "CLOSE",
                           position_id |-> position_id,
                           pnl |-> pnl,
                           cash_change |-> pos.margin_required + pnl])],
                  ret |-> Some(closed)]

PT_close_position(self, position_id, exit_date, exit_spy_price, closing_cost) ==
    LET i == FirstWithId(self.positions, position_id)
    IN  IF i = 0 THEN [self |-> self, ret |-> None]
        ELSE LET pos == self.positions[i]
                 pnl == pos.total_credit - closing_cost
                 closed == [pos EXCEPT !.status = "CLOSED",
                                       !.exit_date = Some(exit_date),
                                       !.exit_spy_price = Some(exit_spy_price),
                                       !.exit_pnl = Some(pnl)]
             IN  [self |-> [self EXCEPT
                      !.cash = @ + pos.margin_required + pnl,
                      !.closed_positions = Append(@, closed),
                      !.positions = Pop(@, i),
                      !.trade_history = Append(@,
                          [date |-> exit_date,
                           action |-> "CLOSE",
                           position_id |-> position_id,
                           pnl |-> pnl,
                           cash_change |-> pos.margin_required + pnl])],
                  ret |-> Some(closed)]

\* [pos['exit_pnl'] for pos in self.closed_positions]
PT_exit_pnls(closed_positions) ==
    [i \in 1..Len(closed_positions) |-> [exit_pnl |-> closed_positions[i].exit_pnl[1]]]

PT_get_total_pnl(self) ==
    LET unrealized == SumField(self.positions, "current_pnl")
        realized == SumField(PT_exit_pnls(self.closed_positions), "exit_pnl")
    IN  unrealized + realized

PT_get_account_value(self) ==
    self.cash + SumField(self.positions, "current_pnl")

\* Mutant: a position closed for exactly nothing counts as a win.
PT_get_stats_nonneg_wins(self) ==
    LET exits == PT_exit_pnls(self.closed_positions)
        total_trades == Len(self.closed_positions)
        winning_trades == Len(exits) - Len(Negative(exits, "exit_pnl"))
        losing_trades == Len(Negative(exits, "exit_pnl"))
        win_rate == IF total_trades > 0
                    THEN Div(winning_trades * 100, total_trades)
                    ELSE Num(0)
        avg_win == IF winning_trades > 0
                   THEN Div(SumField(Positive(exits, "exit_pnl"), "exit_pnl"),
                            winning_trades)
                   ELSE Num(0)
        avg_loss == IF losing_trades > 0
                    THEN Div(SumField(Negative(exits, "exit_pnl"), "exit_pnl"),
                             losing_trades)
                    ELSE Num(0)
        total_realized == SumField(exits, "exit_pnl")
        total_unrealized == SumField(self.positions, "current_pnl")
    IN  [account_value |-> PT_get_account_value(self),
         cash |-> self.cash,
         total_pnl |-> total_realized + total_unrealized,
         realized_pnl |-> total_realized,
         unrealized_pnl |-> total_unrealized,
         total_trades |-> total_trades,
         winning_trades |-> winning_trades,
         losing_trades |-> losing_trades,
         win_rate |-> win_rate,
         avg_win |-> avg_win,
         avg_loss |-> avg_loss,
         open_positions |-> Len(self.positions),
         roi |-> Div((PT_get_account_value(self) - self.initial_cash) * 100,
                     self.initial_cash)]

PT_get_stats(self) ==
    LET exits == PT_exit_pnls(self.closed_positions)
        total_trades == Len(self.closed_positions)
        winning_trades == Len(Positive(exits, "exit_pnl"))
        losing_trades == Len(Negative(exits, "exit_pnl"))
        win_rate == IF total_trades > 0
                    THEN Div(winning_trades * 100, total_trades)
                    ELSE Num(0)
        avg_win == IF winning_trades > 0
                   THEN Div(SumField(Positive(exits, "exit_pnl"), "exit_pnl"),
                            winning_trades)
                   ELSE Num(0)
        avg_loss == IF losing_trades > 0
                    THEN Div(SumField(Negative(exits, "exit_pnl"), "exit_pnl"),
                             losing_trades)
                    ELSE Num(0)
        total_realized == SumField(exits, "exit_pnl")
        total_unrealized == SumField(self.positions, "current_pnl")
    IN  [account_value |-> PT_get_account_value(self),
         cash |-> self.cash,
         total_pnl |-> total_realized + total_unrealized,
         realized_pnl |-> total_realized,
         unrealized_pnl |-> total_unrealized,
         total_trades |-> total_trades,
         winning_trades |-> winning_trades,
         losing_trades |-> losing_trades,
         win_rate |-> win_rate,
         avg_win |-> avg_win,
         avg_loss |-> avg_loss,
         open_positions |-> Len(self.positions),
         roi |-> Div((PT_get_account_value(self) - self.initial_cash) * 100,
                     self.initial_cash)]

(***************************************************************************)
(* src/app.py: the session-dictionary ledger                               *)
(***************************************************************************)

\* 'paper_portfolio' in st.session_state
HasPortfolio(ss) == ss.paper_portfolio # None

init_paper_trading(ss) ==
    IF ~HasPortfolio(ss)
    THEN [ss EXCEPT !.paper_portfolio =
            Some([cash |-> INITIAL_CASH,
                  positions |-> <<>>,
                  closed_trades |-> <<>>,
                  total_pl |-> 0,
                  trade_count |-> 0])]
    ELSE ss

LEGS == <<"short_call", "long_call", "short_put", "long_put">>

option_type(leg) == IF leg \in {"short_call", "long_call"} THEN "call" ELSE "put"

\* index of the first quote of the expiration with this strike and type, 0 if none
FindOption(opts, strike, type) ==
    IF \E i \in 1..Len(opts) : opts[i].strike = strike /\ opts[i].type = type
    THEN CHOOSE i \in 1..Len(opts) :
            /\ opts[i].strike = strike /\ opts[i].type = type
            /\ \A j \in 1..(i - 1) : ~(opts[j].strike = strike /\ opts[j].type = type)
    ELSE 0

\* One leg of calculate_position_value: the leg's signed value, or raised = TRUE
\* where the code raises (current_data is None, or the quote has no bid or ask).
\* bid and ask are in cents: (bid + ask) / 2 * 100 dollars per contract.
LegValue(position, leg, current_data) ==
    IF current_data = None THEN [raised |-> TRUE, value |-> 0]
    ELSE LET chain == current_data[1]
             exp_date == position.expiration
             i == IF exp_date \in DOMAIN chain
                  THEN FindOption(chain[exp_date], position[leg].strike, option_type(leg))
                  ELSE 0
         IN  IF i = 0 THEN [raised |-> FALSE, value |-> 0]
             ELSE LET current_option == chain[exp_date][i]
                  IN  IF ~({"bid", "ask"} \subseteq DOMAIN current_option)
                      THEN [raised |-> TRUE, value |-> 0]
                      ELSE LET current_price100 ==
                                   (current_option.bid + current_option.ask) \div 2
                               v == current_price100 * position.quantity
                           IN  [raised |-> FALSE,
                                value |-> IF leg \in {"short_call", "short_put"}
                                          THEN -v ELSE v]

\* returns <<total_current_value, pl>>; any exception gives <<0, 0>>
calculate_position_value(position, current_data) ==
    LET lv == [k \in 1..4 |-> LegValue(position, LEGS[k], current_data)]
    IN  IF \E k \in 1..4 : lv[k].raised
        THEN <<0, 0>>
        ELSE LET total_current_value ==
                     lv[1].value + lv[2].value + lv[3].value + lv[4].value
                 pl == position.entry_credit + total_current_value
             IN  <<total_current_value, pl>>

\* Mutant: an open that needs exactly the cash at hand is rejected.
open_paper_trade_strict(ss0, ic_setup, expiration, quantity) ==
    LET ss == IF ~HasPortfolio(ss0) THEN init_paper_trading(ss0) ELSE ss0
        pf == ss.paper_portfolio[1]
        entry_credit == ic_setup.max_profit * quantity
        max_loss == ic_setup.max_loss * quantity
        required_margin == max_loss
    IN  IF pf.cash <= required_margin
        THEN [ss |-> ss, ret |-> FALSE]
        ELSE LET position ==
                    [id |-> pf.trade_count + 1,
                     expiration |-> expiration,
                     quantity |-> quantity,
                     short_call |-> [strike |-> ic_setup.short_call.strike,
                                     entry_price |-> ic_setup.short_call.last],
                     long_call |-> [strike |-> ic_setup.long_call.strike,
                                    entry_price |-> ic_setup.long_call.last],
                     short_put |-> [strike |-> ic_setup.short_put.strike,
                                    entry_price |-> ic_setup.short_put.last],
                     long_put |-> [strike |-> ic_setup.long_put.strike,
                                   entry_price |-> ic_setup.long_put.last],
                     entry_credit |-> entry_credit,
                     max_loss |-> max_loss,
                     max_profit |-> entry_credit,
                     target_delta |-> IF "target_delta" \in DOMAIN ic_setup
                                      THEN ic_setup.target_delta ELSE 20]
             IN  [ss |-> [ss EXCEPT !.paper_portfolio =
                            Some([pf EXCEPT
                                    !.positions = Append(@, position),
                                    !.cash = @ - required_margin,
                                    !.trade_count = @ + 1])],
                  ret |-> TRUE]

open_paper_trade(ss0, ic_setup, expiration, quantity) ==
    LET ss == IF ~HasPortfolio(ss0) THEN init_paper_trading(ss0) ELSE ss0
        pf == ss.paper_portfolio[1]
        entry_credit == ic_setup.max_profit * quantity
        max_loss == ic_setup.max_loss * quantity
        required_margin == max_loss
    IN  IF pf.cash < required_margin
        THEN [ss |-> ss, ret |-> FALSE]
        ELSE LET position ==
                    [id |-> pf.trade_count + 1,
                     expiration |-> expiration,
                     quantity |-> quantity,
                     short_call |-> [strike |-> ic_setup.short_call.strike,
                                     entry_price |-> ic_setup.short_call.last],
                     long_call |-> [strike |-> ic_setup.long_call.strike,
                                    entry_price |-> ic_setup.long_call.last],
                     short_put |-> [strike |-> ic_setup.short_put.strike,
                                    entry_price |-> ic_setup.short_put.last],
                     long_put |-> [strike |-> ic_setup.long_put.strike,
                                   entry_price |-> ic_setup.long_put.last],
                     entry_credit |-> entry_credit,
                     max_loss |-> max_loss,
                     max_profit |-> entry_credit,
                     target_delta |-> IF "target_delta" \in DOMAIN ic_setup
                                      THEN ic_setup.target_delta ELSE 20]
             IN  [ss |-> [ss EXCEPT !.paper_portfolio =
                            Some([pf EXCEPT
                                    !.positions = Append(@, position),
                                    !.cash = @ - required_margin,
                                    !.trade_count = @ + 1])],
                  ret |-> TRUE]

\* Mutant: the closed position is not taken out of the open positions.
close_paper_trade_no_pop(ss, position_id, current_data, reason) ==
    IF ~HasPortfolio(ss) THEN [ss |-> ss, ret |-> FALSE]
    ELSE LET pf == ss.paper_portfolio[1]
             position_index == FirstWithId(pf.positions, position_id)
         IN  IF position_index = 0 THEN [ss |-> ss, ret |-> FALSE]
             ELSE LET position == pf.positions[position_index]
                      final_pl == calculate_position_value(position, current_data)[2]
                      closed_trade ==
                          SetItem(SetItem(position, "close_reason", reason),
                                  "final_pl", final_pl)
                  IN  [ss |-> [ss EXCEPT !.paper_portfolio =
                                 Some([pf EXCEPT
                                    !.closed_trades = Append(@, closed_trade),
                                    !.positions = @,
                                    !.cash = @ + position.max_loss + final_pl,
                                    !.total_pl = @ + final_pl])],
                       ret |-> TRUE]

close_paper_trade(ss, position_id, current_data, reason) ==
    IF ~HasPortfolio(ss) THEN [ss |-> ss, ret |-> FALSE]
    ELSE LET pf == ss.paper_portfolio[1]
             position_index == FirstWithId(pf.positions, position_id)
         IN  IF position_index = 0 THEN [ss |-> ss, ret |-> FALSE]
             ELSE LET position == pf.positions[position_index]
                      final_pl == calculate_position_value(position, current_data)[2]
                      closed_trade ==
                          SetItem(SetItem(position, "close_reason", reason),
                                  "final_pl", final_pl)
                  IN  [ss |-> [ss EXCEPT !.paper_portfolio =
                                 Some([pf EXCEPT
                                    !.closed_trades = Append(@, closed_trade),
                                    !.positions = Pop(@, position_index),
                                    !.cash = @ + position.max_loss + final_pl,
                                    !.total_pl = @ + final_pl])],
                       ret |-> TRUE]

\* display_paper_trading_panel: the portfolio summary row
RECURSIVE UnrealizedPl(_, _)
UnrealizedPl(positions, options_data) ==
    IF positions = <<>> THEN 0
    ELSE calculate_position_value(Head(positions), options_data)[2]
            + UnrealizedPl(Tail(positions), options_data)

panel_summary(portfolio, options_data) ==
    LET total_unrealized_pl == UnrealizedPl(portfolio.positions, options_data)
        total_value == portfolio.cash + SumField(portfolio.positions, "max_loss")
                          + total_unrealized_pl
    IN  [cash |-> portfolio.cash,
         total_value |-> total_value,
         open_positions |-> Len(portfolio.positions),
         total_unrealized_pl |-> total_unrealized_pl,
         total_pl |-> portfolio.total_pl]

\* display_paper_trading_panel: the summary of the Trade History tab
panel_history(portfolio) ==
    LET total_trades == Len(portfolio.closed_trades)
        winning_trades == Len(Positive(portfolio.closed_trades, "final_pl"))
        win_rate == IF total_trades > 0
                    THEN Div(winning_trades * 100, total_trades)
                    ELSE Num(0)
    IN  [total_trades |-> total_trades,
         win_rate |-> win_rate,
         total_pl |-> portfolio.total_pl]

(***************************************************************************)
(* src/src/paper.py and src/paper_trading_ui.py: initialize_paper_trading  *)
(***************************************************************************)

Paper_initialize_paper_trading(ss) ==
    LET s1 == IF ~HasPortfolio(ss)
              THEN [ss EXCEPT !.paper_portfolio = Some(Paper_init(INITIAL_CASH))]
              ELSE ss
    IN  IF s1.paper_trading_enabled = None
        THEN [s1 EXCEPT !.paper_trading_enabled = Some(FALSE)]
        ELSE s1

\* Mutant: the initialisation creates the portfolio on every call.
PT_initialize_paper_trading_always(ss) ==
    LET s1 == [ss EXCEPT !.paper_portfolio = Some(PT_init(INITIAL_CASH))]
    IN  IF s1.paper_trading_enabled = None
        THEN [s1 EXCEPT !.paper_trading_enabled = Some(FALSE)]
        ELSE s1

PT_initialize_paper_trading(ss) ==
    LET s1 == IF ~HasPortfolio(ss)
              THEN [ss EXCEPT !.paper_portfolio = Some(PT_init(INITIAL_CASH))]
              ELSE ss
    IN  IF s1.paper_trading_enabled = None
        THEN [s1 EXCEPT !.paper_trading_enabled = Some(FALSE)]
        ELSE s1

(***************************************************************************)
(* Inputs                                                                  *)
(***************************************************************************)

Impls == {"paper", "paper_trading", "app"}

Expirations == {"2025-06-20"}

\* contracts: 1 is the widgets' default, 10 makes a margin of the size of the cash
Quantities == {1, 10}

\* ids a caller may name: the assigned ones and one never assigned
PositionIds == 1..(MaxTrades + 1)

Leg(strike, price) == [strike |-> strike, last |-> price, bid |-> price - 5, ask |-> price + 5]

\* candidates as find_iron_condor_strikes returns them (max_profit, max_loss >= 0)
Setups ==
    { [max_profit |-> 200, max_loss |-> 800,
       short_call |-> Leg(590, 150) @@ [expiration_date |-> "2025-06-20"],
       long_call |-> Leg(600, 50),
       short_put |-> Leg(570, 150), long_put |-> Leg(560, 50)],
      [max_profit |-> 500, max_loss |-> 200,
       short_call |-> Leg(590, 400) @@ [expiration_date |-> "2025-06-20"],
       long_call |-> Leg(597, 100),
       short_put |-> Leg(570, 300), long_put |-> Leg(563, 100)] }

\* percentages of max profit a position is closed at: the slider offers 0..100,
\* the method takes any number
PnlPcts == {-50, 50, 100}

\* arguments of open_iron_condor: a 10-wide condor for 2.00 credit, one contract
\* and ten, and ten contracts of a condor that collects more credit (5.00) than
\* its spreads are wide (3)
Condor(cs, cl, ps, pl, cc, pc, contracts) ==
    [entry_date |-> "2025-05-01", expiration |-> "2025-06-20", spy_price |-> 580,
     call_short_strike |-> cs, call_long_strike |-> cl,
     put_short_strike |-> ps, put_long_strike |-> pl,
     call_spread_credit |-> cc, put_spread_credit |-> pc,
     contracts |-> contracts, notes |-> ""]

OpenArgs ==
    { Condor(590, 600, 570, 565, 100, 100, 1),
      Condor(590, 600, 570, 565, 100, 100, 10),
      Condor(590, 592, 570, 567, 300, 200, 10) }

\* dollars paid to buy both spreads back
ClosingCosts == {0, 200, 900}

\* current values of the call spread and the put spread, in cents
SpreadValues == {<<50, 50>>}

Quote(strike, type, bid, ask) == [strike |-> strike, type |-> type, bid |-> bid, ask |-> ask]

\* option data at a close: none at all, a chain without the expiration, a chain
\* that quotes the four legs, and a chain whose first quote carries no prices
OptionsData ==
    { None,
      Some([e \in {"2025-07-18"} |-> <<>>]),
      Some([e \in Expirations |->
              << Quote(590, "call", 400, 420), Quote(600, "call", 100, 120),
                 Quote(570, "put", 300, 320), Quote(560, "put", 50, 70),
                 Quote(597, "call", 200, 220), Quote(563, "put", 150, 170) >>]),
      Some([e \in Expirations |->
              << [strike |-> 590, type |-> "call"],
                 Quote(600, "call", 100, 120) >>]) }

(***************************************************************************)
(* The session: one ledger, driven by the handlers of its user interface   *)
(***************************************************************************)

\* the portfolio of the session, once initialised
Portfolio == session_state.paper_portfolio[1]

\* positions opened so far
Opened ==
    IF ~HasPortfolio(session_state) THEN 0
    ELSE Len(Portfolio.positions)
         + Len(IF impl = "app" THEN Portfolio.closed_trades
               ELSE Portfolio.closed_positions)

\* what a call leaves in last_error: the rejected operation, or None
Outcome(op, ok) == IF ok THEN None ELSE Some(op)

\* the analysis functions (scorer, strike selector, pricing model) keep no
\* state: `analysis' holds one application of one of them, its module, its
\* arguments and what it returned (<<>> until it has returned); NoCall in a
\* ledger session
NoCall == [fn |-> "", module |-> "", args |-> <<>>, ret |-> <<>>]

Applied(fn, module, args, ret) == [fn |-> fn, module |-> module, args |-> args, ret |-> ret]

Init ==
    /\ impl \in Impls
    /\ session_state = [paper_portfolio |-> None, paper_trading_enabled |-> None]
    /\ last_error = None
    /\ analysis = NoCall

\* every refresh starts with the ledger's initialisation
Initialize ==
    /\ session_state' =
          CASE impl = "paper" -> Paper_initialize_paper_trading(session_state)
            [] impl = "paper_trading" -> PT_initialize_paper_trading(session_state)
            [] impl = "app" -> init_paper_trading(session_state)
    /\ last_error' = None
    /\ UNCHANGED <<impl, analysis>>

\* ui/paper_trading_ui.py: the Open Paper Trade button
PaperOpen ==
    /\ impl = "paper" /\ HasPortfolio(session_state) /\ Opened < MaxTrades
    /\ \E setup \in Setups, quantity \in Quantities :
          LET r == Paper_open_position(Portfolio, setup, quantity)
          IN  /\ session_state' = [session_state EXCEPT !.paper_portfolio = Some(r.self)]
              /\ last_error' = Outcome("open", r.ok)
    /\ UNCHANGED <<impl, analysis>>

\* ui/paper_trading_ui.py: the Close Position button
PaperClose ==
    /\ impl = "paper" /\ HasPortfolio(session_state)
    /\ \E position_id \in PositionIds, pnl_pct \in PnlPcts :
          LET r == Paper_close_position(Portfolio, position_id, pnl_pct)
          IN  /\ session_state' = [session_state EXCEPT !.paper_portfolio = Some(r.self)]
              /\ last_error' = Outcome("close", r.ok)
    /\ UNCHANGED <<impl, analysis>>

\* paper_trading_ui.py: the Open Position button
PTOpen ==
    /\ impl = "paper_trading" /\ HasPortfolio(session_state) /\ Opened < MaxTrades
    /\ \E a \in OpenArgs :
          LET r == PT_open_iron_condor(Portfolio, a)
          IN  /\ session_state' = [session_state EXCEPT !.paper_portfolio = Some(r.self)]
              /\ last_error' = Outcome("open", r.ret # None)
    /\ UNCHANGED <<impl, analysis>>

\* a revaluation of an open position
PTUpdate ==
    /\ impl = "paper_trading" /\ HasPortfolio(session_state)
    /\ \E position_id \in PositionIds, v \in SpreadValues :
          session_state' = [session_state EXCEPT !.paper_portfolio =
                Some(PT_update_position_pnl(Portfolio, position_id, 575, v[1], v[2]))]
    /\ last_error' = None
    /\ UNCHANGED <<impl, analysis>>

\* paper_trading_ui.py: the Confirm button of a close
PTClose ==
    /\ impl = "paper_trading" /\ HasPortfolio(session_state)
    /\ \E position_id \in PositionIds, closing_cost \in ClosingCosts :
          LET r == PT_close_position(Portfolio, position_id, "2025-05-20", 580, closing_cost)
          IN  /\ session_state' = [session_state EXCEPT !.paper_portfolio = Some(r.self)]
              /\ last_error' = Outcome("close", r.ret # None)
    /\ UNCHANGED <<impl, analysis>>

\* app.py: the Open Paper Trade button of display_paper_trading_panel
AppOpen ==
    /\ impl = "app" /\ Opened < MaxTrades
    /\ \E ic_setup \in Setups, e \in Expirations, quantity \in Quantities :
          LET r == open_paper_trade(session_state, ic_setup, e, quantity)
          IN  /\ session_state' = r.ss
              /\ last_error' = Outcome("open", r.ret)
    /\ UNCHANGED <<impl, analysis>>

\* app.py: a Close Trade button of display_paper_trading_panel
AppClose ==
    /\ impl = "app"
    /\ \E position_id \in PositionIds, current_data \in OptionsData :
          LET r == close_paper_trade(session_state, position_id, current_data, "Manual close")
          IN  /\ session_state' = r.ss
              /\ last_error' = Outcome("close", r.ret)
    /\ UNCHANGED <<impl, analysis>>

Next ==
    \/ Initialize
    \/ PaperOpen
    \/ PaperClose
    \/ PTOpen
    \/ PTUpdate
    \/ PTClose
    \/ AppOpen
    \/ AppClose

Spec == Init /\ [][Next]_vars

(***************************************************************************)
(* The ledger vocabulary of the specification, read off each ledger        *)
(***************************************************************************)

PortfolioOf(ss) == ss.paper_portfolio[1]

WithPortfolio(ss, pf) == [ss EXCEPT !.paper_portfolio = Some(pf)]

CashOf(ss) == PortfolioOf(ss).cash

OpenOf(ss) == PortfolioOf(ss).positions

\* the closed history: closed_positions, or the session dictionary's closed_trades
ClosedOf(ss) ==
    IF impl = "app" THEN PortfolioOf(ss).closed_trades
    ELSE PortfolioOf(ss).closed_positions

\* the margin a position holds: what open took from cash and close gives back
MarginHeld(p) ==
    CASE impl = "paper" -> p.margin_held
      [] impl = "paper_trading" -> p.margin_required
      [] impl = "app" -> p.max_loss

\* the realized P&L stamped on a closed position
RealizedPnl(p) ==
    CASE impl = "paper" -> p.realized_pnl
      [] impl = "paper_trading" -> p.exit_pnl[1]
      [] impl = "app" -> p.final_pl

InitialCashOf(ss) ==
    IF impl = "app" THEN INITIAL_CASH ELSE PortfolioOf(ss).initial_cash

\* the trade counter: trade_count, or the count the closing-cost ledger derives ids from
TradeCounterOf(ss) ==
    IF impl = "paper_trading"
    THEN Len(PortfolioOf(ss).positions) + Len(PortfolioOf(ss).closed_positions)
    ELSE PortfolioOf(ss).trade_count

\* margin held by the positions of a list, realized P&L of a closed history
RECURSIVE MarginSum(_)
MarginSum(s) == IF s = <<>> THEN 0 ELSE MarginHeld(Head(s)) + MarginSum(Tail(s))

RECURSIVE RealizedSum(_)
RealizedSum(s) == IF s = <<>> THEN 0 ELSE RealizedPnl(Head(s)) + RealizedSum(Tail(s))

IdsOf(s) == {s[i].id : i \in 1..Len(s)}

\* every open call of the session's ledger on ss: the margin it requires, the
\* credit it collects, whether it was accepted, the session it leaves
OpenCalls(ss) ==
    CASE impl = "paper" ->
            { LET r == Paper_open_position(PortfolioOf(ss), in.setup, in.quantity)
              IN  [need |-> in.setup.max_loss * in.quantity,
                   credit |-> in.setup.max_profit * in.quantity,
                   ok |-> r.ok,
                   ss |-> WithPortfolio(ss, r.self)] :
              in \in [setup : Setups, quantity : Quantities] }
      [] impl = "paper_trading" ->
            { LET r == PT_open_iron_condor(PortfolioOf(ss), a)
                  credit100 == a.call_spread_credit + a.put_spread_credit
                  width == Max(a.call_long_strike - a.call_short_strike,
                               a.put_short_strike - a.put_long_strike)
              IN  [need |-> Abs(width * 100 - credit100) * a.contracts,
                   credit |-> credit100 * a.contracts,
                   ok |-> r.ret # None,
                   ss |-> WithPortfolio(ss, r.self)] :
              a \in OpenArgs }
      [] impl = "app" ->
            { LET r == open_paper_trade(ss, in.setup, in.expiration, in.quantity)
              IN  [need |-> in.setup.max_loss * in.quantity,
                   credit |-> in.setup.max_profit * in.quantity,
                   ok |-> r.ret,
                   ss |-> r.ss] :
              in \in [setup : Setups, expiration : Expirations, quantity : Quantities] }

\* every close call of the session's ledger on ss: the id it names, whether it
\* keeps the full credit (100 percent, closing cost 0, legs worth nothing),
\* whether it was accepted, the session it leaves
CloseCalls(ss) ==
    CASE impl = "paper" ->
            { LET r == Paper_close_position(PortfolioOf(ss), in.id, in.pnl_pct)
              IN  [id |-> in.id, full |-> in.pnl_pct = 100, ok |-> r.ok,
                   ss |-> WithPortfolio(ss, r.self)] :
              in \in [id : PositionIds, pnl_pct : PnlPcts] }
      [] impl = "paper_trading" ->
            { LET r == PT_close_position(PortfolioOf(ss), in.id, "2025-05-20", 580, in.cost)
              IN  [id |-> in.id, full |-> in.cost = 0, ok |-> r.ret # None,
                   ss |-> WithPortfolio(ss, r.self)] :
              in \in [id : PositionIds, cost : ClosingCosts] }
      [] impl = "app" ->
            { LET r == close_paper_trade(ss, in.id, in.data, "Manual close")
              IN  [id |-> in.id,
                   full |-> in.data # None /\ DOMAIN in.data[1] \cap Expirations = {},
                   ok |-> r.ret,
                   ss |-> r.ss] :
              in \in [id : PositionIds, data : OptionsData] }

Ready == HasPortfolio(session_state)

(***************************************************************************)
(* Claims                                                                  *)
(***************************************************************************)

\* C1. Ledger cash conservation: in every state reached by open and close calls,
\* cash plus the margin held by the open positions equals the initial cash plus
\* the realized P&L of the closed positions.
C1_CashConservation ==
    Ready =>
        CashOf(session_state) + MarginSum(OpenOf(session_state))
            = InitialCashOf(session_state)
                + RealizedSum(ClosedOf(session_state))

\* C1 witness: a position is open and another has been closed at a loss or a gain.
C1_Witness ==
    /\ Ready
    /\ Len(OpenOf(session_state)) >= 1
    /\ \E i \in 1..Len(ClosedOf(session_state)) :
          RealizedPnl(ClosedOf(session_state)[i]) # 0

\* C2. A rejected open leaves the session exactly as it was (cash, open
\* positions, closed history, trade counter), so the next accepted open gets the
\* id it would have got without the rejected call.
C2_RejectedOpenUnchanged ==
    Ready =>
        \A c \in OpenCalls(session_state) :
            ~c.ok =>
                /\ c.ss = session_state
                /\ TradeCounterOf(c.ss) = TradeCounterOf(session_state)
                /\ \A d \in OpenCalls(c.ss) :
                      d.ok => OpenOf(d.ss)[Len(OpenOf(d.ss))].id
                                 = TradeCounterOf(session_state) + 1

\* C2 witness: an open has just been rejected while a position is open.
C2_Witness ==
    /\ Ready
    /\ last_error = Some("open")
    /\ Len(OpenOf(session_state)) >= 1

\* C3. A close that names an id that is not open (never assigned, or already
\* closed) is rejected and leaves the session as it was; a closed id is never
\* open, so a position is credited to cash at most once.
C3_PositionNotFound ==
    Ready =>
        /\ IdsOf(OpenOf(session_state)) \cap IdsOf(ClosedOf(session_state)) = {}
        /\ \A c \in CloseCalls(session_state) :
              c.id \notin IdsOf(OpenOf(session_state)) =>
                  ~c.ok /\ c.ss = session_state

\* C3 witness: a close has just been rejected, with a closed position in the
\* history and an id that was never assigned among the callers' ids.
C3_Witness ==
    /\ Ready
    /\ last_error = Some("close")
    /\ Len(ClosedOf(session_state)) >= 1
    /\ \E id \in PositionIds : id > TradeCounterOf(session_state)

\* C4. An open is accepted exactly when the margin it requires is at most the
\* cash (the boundary included), and an accepted open leaves cash >= 0 when
\* cash was >= 0.
C4_OpenIffAffordable ==
    Ready =>
        \A c \in OpenCalls(session_state) :
            /\ c.ok <=> c.need <= CashOf(session_state)
            /\ c.ok => CashOf(c.ss) = CashOf(session_state) - c.need
            /\ (c.ok /\ CashOf(session_state) >= 0) => CashOf(c.ss) >= 0

\* C4 witness: an open took exactly the cash that was left.
C4_Witness ==
    /\ Ready
    /\ last_error = None
    /\ CashOf(session_state) = 0
    /\ Len(OpenOf(session_state)) = 2
\* The status a ledger stamps on a position matches the collection it is in (the
\* session dictionary has no status field: a closed trade is one with a final_pl).
StatusMatches(ss) ==
    /\ \A i \in 1..Len(OpenOf(ss)) :
          CASE impl = "paper" -> OpenOf(ss)[i].status = "open"
            [] impl = "paper_trading" -> OpenOf(ss)[i].status = "OPEN"
            [] impl = "app" -> "final_pl" \notin DOMAIN OpenOf(ss)[i]
    /\ \A i \in 1..Len(ClosedOf(ss)) :
          CASE impl = "paper" -> ClosedOf(ss)[i].status = "closed"
            [] impl = "paper_trading" -> ClosedOf(ss)[i].status = "CLOSED"
            [] impl = "app" -> "final_pl" \in DOMAIN ClosedOf(ss)[i]

IsPrefix(s, t) == Len(s) <= Len(t) /\ \A i \in 1..Len(s) : t[i] = s[i]

LifecycleStep ==
    Ready' =>
        /\ StatusMatches(session_state')
        /\ IdsOf(OpenOf(session_state')) \cap IdsOf(ClosedOf(session_state')) = {}
        /\ IdsOf(OpenOf(session_state')) \cup IdsOf(ClosedOf(session_state'))
              = 1..TradeCounterOf(session_state')
        /\ Ready =>
              /\ IsPrefix(ClosedOf(session_state), ClosedOf(session_state'))
              /\ IdsOf(OpenOf(session_state)) \ IdsOf(OpenOf(session_state'))
                    \subseteq IdsOf(ClosedOf(session_state'))
              /\ IdsOf(ClosedOf(session_state')) \ IdsOf(ClosedOf(session_state))
                    \subseteq IdsOf(OpenOf(session_state))
              /\ IdsOf(ClosedOf(session_state)) \cap IdsOf(OpenOf(session_state')) = {}

\* C5. Position lifecycle: after every step each position is in exactly one of
\* the open collection (status open) and the closed history (status closed); a
\* position leaves the open collection only into the closed history, never comes
\* back, and no step (open, close, P&L update, initialisation) changes or removes
\* an entry of the closed history.
C5_Lifecycle == [][LifecycleStep]_vars

\* C5 witness: a position was closed, and then another one, still open, was revalued.
C5_Witness ==
    /\ Ready
    /\ impl = "paper_trading"
    /\ Len(ClosedOf(session_state)) >= 1
    /\ \E i \in 1..Len(OpenOf(session_state)) :
          /\ "current_spy_price" \in DOMAIN OpenOf(session_state)[i]
          /\ OpenOf(session_state)[i].id > ClosedOf(session_state)[1].id

\* C6. Position ids are unique and monotonically assigned: the ids of the open
\* and closed positions are pairwise different and are exactly 1..N, N being the
\* number of positions ever opened and the trade counter, and an accepted open
\* gives the new position an id greater than every id assigned before.
C6_UniqueMonotonicIds ==
    Ready =>
        LET open == OpenOf(session_state)
            closed == ClosedOf(session_state)
            N == Len(open) + Len(closed)
        IN  /\ IdsOf(open) \cup IdsOf(closed) = 1..N
            /\ Cardinality(IdsOf(open) \cup IdsOf(closed)) = N
            /\ TradeCounterOf(session_state) = N
            /\ \A c \in OpenCalls(session_state) :
                  c.ok =>
                      /\ Len(OpenOf(c.ss)) = Len(open) + 1
                      /\ \A id \in IdsOf(open) \cup IdsOf(closed) :
                            OpenOf(c.ss)[Len(open) + 1].id > id

\* C6 witness: position 1 was closed before position 2 was opened.
C6_Witness ==
    /\ Ready
    /\ IdsOf(ClosedOf(session_state)) = {1}
    /\ IdsOf(OpenOf(session_state)) = {2}

\* the total P&L a ledger reports
ReportedTotalPnl(ss) ==
    CASE impl = "paper" -> Paper_get_stats(PortfolioOf(ss)).total_pnl
      [] impl = "paper_trading" -> PT_get_stats(PortfolioOf(ss)).total_pnl
      [] impl = "app" -> PortfolioOf(ss).total_pl

\* C7. Open/close round trip: an accepted open takes the margin from cash, and
\* closing the new position at once with the full credit retained is accepted,
\* leaves the open positions as they were before the open, cash at its value
\* before the open plus the credit, and the reported total P&L higher by exactly
\* the credit (10,000 -> 9,200 -> 10,200 and total_pnl 200 for 200/800/1).
C7_RoundTrip ==
    Ready =>
        \A c \in OpenCalls(session_state) :
            c.ok =>
                /\ CashOf(c.ss) = CashOf(session_state) - c.need
                /\ \A d \in CloseCalls(c.ss) :
                      (d.full /\ d.id = OpenOf(c.ss)[Len(OpenOf(c.ss))].id) =>
                          /\ d.ok
                          /\ OpenOf(d.ss) = OpenOf(session_state)
                          /\ CashOf(d.ss) = CashOf(session_state) + c.credit
                          /\ ReportedTotalPnl(d.ss)
                                = ReportedTotalPnl(session_state) + c.credit

\* C7 witness: the round trip of the 200/800 candidate on the fresh 10,000 account.
C7_Witness ==
    /\ Ready
    /\ OpenOf(session_state) = <<>>
    /\ Len(ClosedOf(session_state)) = 1
    /\ MarginHeld(ClosedOf(session_state)[1]) = 800
    /\ RealizedPnl(ClosedOf(session_state)[1]) = 200
    /\ CashOf(session_state) = 10200
    /\ ReportedTotalPnl(session_state) = 200

\* the ledgers with a get_stats method
HasGetStats == impl \in {"paper", "paper_trading"}

GetStats(ss) ==
    IF impl = "paper" THEN Paper_get_stats(PortfolioOf(ss))
    ELSE PT_get_stats(PortfolioOf(ss))

\* C8. get_stats reports account_value = cash + the margin held by the open
\* positions, in every reachable state.
C8_AccountValue ==
    (Ready /\ HasGetStats) =>
        GetStats(session_state).account_value
            = CashOf(session_state) + MarginSum(OpenOf(session_state))

\* C9. get_stats reports total_pnl = account_value - initial_cash, in every
\* reachable state.
C9_TotalPnl ==
    (Ready /\ HasGetStats) =>
        GetStats(session_state).total_pnl
            = GetStats(session_state).account_value - InitialCashOf(session_state)

\* the statistics a ledger shows of its closed history: get_stats, or the
\* Trade History tab of the session dictionary's panel
HistoryStats(ss) ==
    CASE impl = "paper" -> Paper_get_stats(PortfolioOf(ss))
      [] impl = "paper_trading" -> PT_get_stats(PortfolioOf(ss))
      [] impl = "app" -> panel_history(PortfolioOf(ss))

Wins(ss) == {i \in 1..Len(ClosedOf(ss)) : RealizedPnl(ClosedOf(ss)[i]) > 0}

\* r is the fraction wins / closed x 100, and 0 when nothing is closed
IsWinRate(r, ss) ==
    /\ r.den > 0
    /\ IF Len(ClosedOf(ss)) = 0 THEN r.num = 0
       ELSE r.num * Len(ClosedOf(ss)) = Cardinality(Wins(ss)) * 100 * r.den

Val(v) == [nan |-> FALSE, v |-> v]
NaN == [nan |-> TRUE, v |-> 0]

\* Python's chained comparison lo <= x <= hi, and x < a, x > a: False on NaN
Between(lo, x, hi) == ~x.nan /\ lo <= x.v /\ x.v <= hi
Lt(x, a) == ~x.nan /\ x.v < a
Gt(x, a) == ~x.nan /\ x.v > a

\* x - y of two values: NaN as soon as one is
Minus(x, y) == IF x.nan \/ y.nan THEN NaN ELSE Val(x.v - y.v)

\* pair of contributions <<entry, risk>>
Contribution(entry, risk) == <<entry, risk>>

required_cols == <<"RSI", "BB_lower", "BB_upper", "BB_width", "ATR_pct", "MACD">>

\* app.py, rule 1: RSI in the neutral zone
App_rsi_rule(latest) ==
    LET rsi == latest["RSI"]
    IN  IF ~rsi.nan
        THEN IF Between(45, rsi, 55) THEN Contribution(2, 0)
             ELSE IF Between(40, rsi, 60) THEN Contribution(1, 0)
             ELSE IF Lt(rsi, 30) \/ Gt(rsi, 70) THEN Contribution(0, 2)
             ELSE Contribution(0, 0)
        ELSE Contribution(0, 0)

\* app.py, rule 2: price in the middle of the Bollinger bands;
\* bb_position = (current_price - BB_lower) / bb_range is compared with
\* 0.2 .. 0.8 after multiplying both sides by 10 * bb_range (bb_range > 0)
App_bb_rule(latest, current_price) ==
    IF ~latest["BB_lower"].nan /\ ~latest["BB_upper"].nan
    THEN LET bb_range == latest["BB_upper"].v - latest["BB_lower"].v
             num == 10 * (current_price - latest["BB_lower"].v)
         IN  IF bb_range > 0
             THEN IF 4 * bb_range <= num /\ num <= 6 * bb_range THEN Contribution(2, 0)
                  ELSE IF 3 * bb_range <= num /\ num <= 7 * bb_range THEN Contribution(1, 0)
                  ELSE IF num < 2 * bb_range \/ num > 8 * bb_range THEN Contribution(0, 2)
                  ELSE Contribution(0, 0)
             ELSE Contribution(0, 0)
    ELSE Contribution(0, 0)

\* app.py, rule 3: low volatility
App_width_rule(latest) ==
    LET w == latest["BB_width"]
    IN  IF ~w.nan
        THEN IF Lt(w, 5) THEN Contribution(2, 0)
             ELSE IF Lt(w, 7) THEN Contribution(1, 0)
             ELSE IF Gt(w, 10) THEN Contribution(0, 2)
             ELSE Contribution(0, 0)
        ELSE Contribution(0, 0)

\* Mutant: a low ATR counts for both scores.
App_atr_rule_both(latest) ==
    LET a == latest["ATR_pct"]
    IN  IF ~a.nan
        THEN IF Lt(a, 8) THEN Contribution(2, 2)
             ELSE IF Lt(a, 12) THEN Contribution(1, 0)
             ELSE IF Gt(a, 20) THEN Contribution(0, 2)
             ELSE Contribution(0, 0)
        ELSE Contribution(0, 0)

\* app.py, rule 4: low ATR (ATR_pct in tenths: 0.8, 1.2, 2.0)
App_atr_rule(latest) ==
    LET a == latest["ATR_pct"]
    IN  IF ~a.nan
        THEN IF Lt(a, 8) THEN Contribution(2, 0)
             ELSE IF Lt(a, 12) THEN Contribution(1, 0)
             ELSE IF Gt(a, 20) THEN Contribution(0, 2)
             ELSE Contribution(0, 0)
        ELSE Contribution(0, 0)

\* app.py, rule 5: MACD near zero; macd_strength = |MACD / current_price| * 100
\* is compared with 0.3 and 1.0 after multiplying by current_price > 0
\* (MACD in tenths: |MACD| * 100 < 3 * price, |MACD| * 10 > price)
App_macd_rule(latest, current_price) ==
    LET m == latest["MACD"]
    IN  IF ~m.nan /\ current_price > 0
        THEN IF Abs(m.v) * 100 < 3 * current_price THEN Contribution(1, 0)
             ELSE IF Abs(m.v) * 10 > current_price THEN Contribution(0, 1)
             ELSE Contribution(0, 0)
        ELSE Contribution(0, 0)

\* app.py: "Determine signal"
App_signal(entry_score, risk_score) ==
    IF entry_score >= 6 /\ risk_score <= 3 THEN "STRONG ENTRY"
    ELSE IF entry_score >= 4 /\ risk_score <= 4 THEN "ENTRY"
    ELSE IF risk_score >= 6 THEN "EXIT / AVOID"
    ELSE IF risk_score >= 5 THEN "CAUTION"
    ELSE "NEUTRAL"

\* app.py calculate_iron_condor_score: <<entry_score, risk_score, signal>>.
\* No statement of the try block raises on a frame of numbers.
App_calculate_iron_condor_score(df, current_price) ==
    IF df.len = 0 \/ df.len < 20 THEN <<0, 9, "NEUTRAL">>
    ELSE LET latest == df.latest
         IN  IF \E i \in DOMAIN required_cols :
                    \/ required_cols[i] \notin DOMAIN latest
                    \/ latest[required_cols[i]].nan
             THEN <<0, 9, "NEUTRAL">>
             ELSE LET r1 == App_rsi_rule(latest)
                      r2 == App_bb_rule(latest, current_price)
                      r3 == App_width_rule(latest)
                      r4 == App_atr_rule(latest)
                      r5 == App_macd_rule(latest, current_price)
                      entry_score == r1[1] + r2[1] + r3[1] + r4[1] + r5[1]
                      risk_score == r1[2] + r2[2] + r3[2] + r4[2] + r5[2]
                  IN  <<entry_score, risk_score, App_signal(entry_score, risk_score)>>

\* analysis.py: latest.get('RSI', 50), then the RSI rule (stricter 35 / 65)
Analysis_rsi_rule(latest) ==
    LET rsi == IF "RSI" \in DOMAIN latest THEN latest["RSI"] ELSE Val(50)
    IN  IF Between(45, rsi, 55) THEN Contribution(2, 0)
        ELSE IF Between(40, rsi, 60) THEN Contribution(1, 0)
        ELSE IF Lt(rsi, 35) \/ Gt(rsi, 65) THEN Contribution(0, 2)
        ELSE Contribution(0, 0)

\* analysis.py: BB position, compared with 0.25 .. 0.75 after multiplying
\* both sides by 20 * bb_range (bb_range > 0)
Analysis_bb_rule(latest, current_price) ==
    IF "BB_lower" \in DOMAIN latest /\ "BB_upper" \in DOMAIN latest
    THEN LET bb_range == Minus(latest["BB_upper"], latest["BB_lower"])
         IN  IF Gt(bb_range, 0)
             THEN LET num == 20 * (current_price - latest["BB_lower"].v)
                      r == bb_range.v
                  IN  IF 8 * r <= num /\ num <= 12 * r THEN Contribution(2, 0)
                      ELSE IF 6 * r <= num /\ num <= 14 * r THEN Contribution(1, 0)
                      ELSE IF num < 5 * r \/ num > 15 * r THEN Contribution(0, 2)
                      ELSE Contribution(0, 0)
             ELSE Contribution(0, 0)
    ELSE Contribution(0, 0)

\* analysis.py: low vol
Analysis_width_rule(latest) ==
    IF "BB_width" \in DOMAIN latest
    THEN IF Lt(latest["BB_width"], 5) THEN Contribution(2, 0)
         ELSE IF Gt(latest["BB_width"], 10) THEN Contribution(0, 2)
         ELSE Contribution(0, 0)
    ELSE Contribution(0, 0)

\* analysis.py: MACD, weak trend favors the condor (MACD in tenths: 1, 3)
Analysis_macd_rule(latest) ==
    IF "MACD" \in DOMAIN latest
    THEN LET m == latest["MACD"]
         IN  IF ~m.nan /\ Abs(m.v) < 10 THEN Contribution(1, 0)
             ELSE IF ~m.nan /\ Abs(m.v) > 30 THEN Contribution(0, 1)
             ELSE Contribution(0, 0)
    ELSE Contribution(0, 0)

\* analysis.py: ATR% (in tenths: 1.0, 2.5)
Analysis_atr_rule(latest) ==
    IF "ATR_pct" \in DOMAIN latest
    THEN IF Lt(latest["ATR_pct"], 10) THEN Contribution(1, 0)
         ELSE IF Gt(latest["ATR_pct"], 25) THEN Contribution(0, 1)
         ELSE Contribution(0, 0)
    ELSE Contribution(0, 0)

\* analysis.py: the signal
Analysis_signal(entry, risk) ==
    IF entry >= 5 /\ risk <= 3 THEN "STRONG ENTRY"
    ELSE IF entry >= 3 THEN "ENTRY"
    ELSE IF risk >= 5 THEN "CAUTION / AVOID"
    ELSE "NEUTRAL"

\* analysis.py calculate_iron_condor_score: <<entry, risk, signal>>
Analysis_calculate_iron_condor_score(df, current_price) ==
    IF df.len < 5 THEN <<0, 9, "NEUTRAL">>
    ELSE LET latest == df.latest
             r1 == Analysis_rsi_rule(latest)
             r2 == Analysis_bb_rule(latest, current_price)
             r3 == Analysis_width_rule(latest)
             r4 == Analysis_macd_rule(latest)
             r5 == Analysis_atr_rule(latest)
             entry == r1[1] + r2[1] + r3[1] + r4[1] + r5[1]
             risk == r1[2] + r2[2] + r3[2] + r4[2] + r5[2]
         IN  <<entry, risk, Analysis_signal(entry, risk)>>

\* ----- inputs of the scorer -----

\* lengths of the frame: empty, under each guard of a scorer (5, 20) and above
FrameLens == {0, 4, 10, 20}

\* a column of the latest row: absent, NaN or one of the numbers
Column(name, numbers) ==
    {<<>>} \cup {[c \in {name} |-> x] : x \in {NaN} \cup {Val(n) : n \in numbers}}

\* the band bounds, together: absent, NaN, or a pair <<BB_lower, BB_upper>>
BandColumns ==
    {<<>>, [c \in {"BB_lower", "BB_upper"} |-> NaN]}
    \cup {[c \in {"BB_lower", "BB_upper"} |-> IF c = "BB_lower" THEN Val(b[1]) ELSE Val(b[2])] :
            b \in {<<570, 590>>, <<560, 590>>, <<558, 658>>, <<500, 590>>, <<580, 580>>}}

\* latest rows: every combination of the columns below
LatestRows ==
    { rsi @@ bands @@ width @@ atr @@ macd :
        rsi \in Column("RSI", {33, 42, 50, 80}),
        bands \in BandColumns,
        width \in Column("BB_width", {3, 6, 12}),
        atr \in Column("ATR_pct", {5, 9, 22, 30}),
        macd \in Column("MACD", {0, 20, 100}) }

Frames == [len : FrameLens, latest : LatestRows]

Prices == {0, 580}

Modules == {"app", "analysis"}

\* ----- the scorer applied -----

\* the ledger takes no part
LedgerIdle ==
    /\ impl = "app"
    /\ session_state = [paper_portfolio |-> None, paper_trading_enabled |-> None]
    /\ last_error = None

\* a call about to be made: the function, its module and its arguments
Pending(fn, module, args) == Applied(fn, module, args, <<>>)

IsPending(fn, module) == analysis.fn = fn /\ analysis.module = module /\ analysis.ret = <<>>

ScorerInit ==
    /\ LedgerIdle
    /\ \E module \in Modules, df \in Frames, current_price \in Prices :
          analysis = Pending("calculate_iron_condor_score", module, <<df, current_price>>)

\* app.py main: entry_score, risk_score, signal = calculate_iron_condor_score(df, current_price)
AppScore ==
    /\ IsPending("calculate_iron_condor_score", "app")
    /\ analysis' = [analysis EXCEPT !.ret =
          App_calculate_iron_condor_score(analysis.args[1], analysis.args[2])]
    /\ UNCHANGED <<impl, session_state, last_error>>

\* src/src/analysis.py's variant of the same call
AnalysisScore ==
    /\ IsPending("calculate_iron_condor_score", "analysis")
    /\ analysis' = [analysis EXCEPT !.ret =
          Analysis_calculate_iron_condor_score(analysis.args[1], analysis.args[2])]
    /\ UNCHANGED <<impl, session_state, last_error>>

ScorerNext == AppScore \/ AnalysisScore

ScorerSpec == ScorerInit /\ [][ScorerNext]_vars

(***************************************************************************)
(* Claims about the Regime Scorer (under ScorerSpec)                       *)
(***************************************************************************)
\* a scorer has returned
Scored == analysis.fn = "calculate_iron_condor_score" /\ analysis.ret # <<>>

\* the five labels of the specification, and the label a returned string spells
SignalLabels == {"STRONG_ENTRY", "ENTRY", "NEUTRAL", "CAUTION", "EXIT_AVOID"}

LabelOf(signal) ==
    CASE signal = "STRONG ENTRY" -> "STRONG_ENTRY"
      [] signal = "EXIT / AVOID" -> "EXIT_AVOID"
      [] OTHER -> signal

\* the priority table of the specification, first match wins
PriorityLabel(entry, risk) ==
    IF entry >= 6 /\ risk <= 3 THEN "STRONG_ENTRY"
    ELSE IF entry >= 4 /\ risk <= 4 THEN "ENTRY"
    ELSE IF risk >= 6 THEN "EXIT_AVOID"
    ELSE IF risk >= 5 THEN "CAUTION"
    ELSE "NEUTRAL"

\* the frame lacks what the claim requires: fewer than 20 bars, or a required
\* indicator missing or NaN in the latest row
Incomplete(df) ==
    \/ df.len < 20
    \/ \E c \in {"RSI", "BB_lower", "BB_upper", "BB_width", "ATR_pct", "MACD"} :
          c \notin DOMAIN df.latest \/ df.latest[c].nan

CautiousDefault == <<0, 9, "NEUTRAL">>

\* the call went past the scorer's own guards to the classification
Classified ==
    /\ Scored
    /\ IF analysis.module = "app" THEN ~Incomplete(analysis.args[1])
       ELSE analysis.args[1].len >= 5

\* C11: for every indicator snapshot and price, the returned entry_score and
\* risk_score are integers in 0..9 and the returned signal is one of the five
\* labels STRONG_ENTRY, ENTRY, NEUTRAL, CAUTION, EXIT_AVOID.
C11_Boundedness ==
    Scored =>
        /\ analysis.ret[1] \in 0..9
        /\ analysis.ret[2] \in 0..9
        /\ LabelOf(analysis.ret[3]) \in SignalLabels

\* C12: the signal is the function of (entry_score, risk_score) given by the
\* priority table: entry >= 6 and risk <= 3 STRONG_ENTRY; else entry >= 4 and
\* risk <= 4 ENTRY; else risk >= 6 EXIT_AVOID; else risk >= 5 CAUTION; else
\* NEUTRAL.
C12_SignalPriority ==
    Classified =>
        LabelOf(analysis.ret[3]) = PriorityLabel(analysis.ret[1], analysis.ret[2])

\* C13: with fewer than 20 bars, or a required indicator missing or NaN in the
\* latest bar, the scorer returns exactly (0, 9, NEUTRAL); with 20 or more bars
\* and every indicator present it returns computed scores, not the default.
C13_CautiousDefault ==
    Scored =>
        IF Incomplete(analysis.args[1])
        THEN analysis.ret = CautiousDefault
        ELSE analysis.ret # CautiousDefault

(***************************************************************************)
(* Strike Selector: find_iron_condor_strikes of src/app.py and of          *)
(* src/src/analysis.py.                                                     *)
(*                                                                         *)
(* Strikes are whole dollars.  bid and ask are in cents, so that           *)
(* (bid + bid - ask - ask) * 100 of the code is their plain sum, in        *)
(* dollars per contract; breakevens are in cents (strike * 100 + credit),  *)
(* which round(.., 2) leaves as they are.  Deltas and the target delta are *)
(* in hundredths; pop is then a whole percentage, which round(.., 1)       *)
(* leaves as it is.                                                         *)
(***************************************************************************)
OptionQuote(type, strike, bid, ask, delta) ==
    [type |-> type, strike |-> strike, bid |-> bid, ask |-> ask, greeks |-> [delta |-> delta]]

\* Eligible without the comparison of the strike with the price
Eligible_any_strike(opts, type, current_price) ==
    LET Test(o) == o.type = type
    IN  SelectSeq(opts, Test)

\* [o for o in opts if o['type'] == type and o['strike'] > / < current_price]
Eligible(opts, type, current_price) ==
    LET Test(o) == /\ o.type = type
                   /\ IF type = "call" THEN o.strike > current_price
                      ELSE o.strike < current_price
    IN  SelectSeq(opts, Test)

\* one step of sorted(): x goes behind the quotes that sort before it or equal
InsertByStrike(x, sorted, reverse) ==
    LET n == Cardinality({i \in DOMAIN sorted :
                 IF reverse THEN sorted[i].strike >= x.strike
                 ELSE sorted[i].strike <= x.strike})
    IN  SubSeq(sorted, 1, n) \o <<x>> \o SubSeq(sorted, n + 1, Len(sorted))

\* sorted() left out: the quotes in the order of the chain
SortedByStrike_unsorted(items, reverse) == items

RECURSIVE SortedByStrike(_, _)
\* sorted(items, key=lambda x: x['strike'], reverse=reverse): a stable sort
SortedByStrike(items, reverse) ==
    IF items = <<>> THEN <<>>
    ELSE InsertByStrike(items[Len(items)],
                        SortedByStrike(SubSeq(items, 1, Len(items) - 1), reverse),
                        reverse)

\* key=lambda x: abs(abs(x['greeks']['delta']) - target)
DeltaDistance(x, target) == Abs(Abs(x.greeks.delta) - target)

\* find_closest_delta taking the last of the quotes with the least key
find_closest_delta_last_tie(opts, target) ==
    IF opts = <<>> THEN None
    ELSE LET i == CHOOSE i \in DOMAIN opts :
                     /\ \A j \in DOMAIN opts :
                           DeltaDistance(opts[i], target) <= DeltaDistance(opts[j], target)
                     /\ \A j \in (i + 1)..Len(opts) :
                           DeltaDistance(opts[j], target) > DeltaDistance(opts[i], target)
         IN  Some(opts[i])

\* min(opts, key=...): the first of the quotes with the least key; None on no quote
find_closest_delta(opts, target) ==
    IF opts = <<>> THEN None
    ELSE LET i == CHOOSE i \in DOMAIN opts :
                     /\ \A j \in DOMAIN opts :
                           DeltaDistance(opts[i], target) <= DeltaDistance(opts[j], target)
                     /\ \A j \in 1..(i - 1) :
                           DeltaDistance(opts[j], target) > DeltaDistance(opts[i], target)
         IN  Some(opts[i])

\* NextStrikeOut defaulting to the short leg itself instead of None
NextStrikeOut_or_short(legs, short, type) ==
    LET further == {i \in DOMAIN legs :
                      IF type = "call" THEN legs[i].strike > short.strike
                      ELSE legs[i].strike < short.strike}
    IN  IF further = {} THEN Some(short)
        ELSE Some(legs[CHOOSE i \in further : \A j \in further : i <= j])

\* next((c for c in legs if c['strike'] > / < short['strike']), None)
NextStrikeOut(legs, short, type) ==
    LET further == {i \in DOMAIN legs :
                      IF type = "call" THEN legs[i].strike > short.strike
                      ELSE legs[i].strike < short.strike}
    IN  IF further = {} THEN None
        ELSE Some(legs[CHOOSE i \in further : \A j \in further : i <= j])

\* the four legs both variants select, or None: lines 1201-1234 of app.py,
\* lines 96-124 of analysis.py (whose .get defaults apply to no quote here:
\* every quote of a chain carries its greeks)
SelectLegs(options_data, expiration, current_price, target_delta) ==
    IF expiration \notin DOMAIN options_data THEN None
    ELSE LET options == options_data[expiration]
             calls0 == Eligible(options, "call", current_price)
             puts0 == Eligible(options, "put", current_price)
         IN  IF calls0 = <<>> \/ puts0 = <<>> THEN None
             ELSE LET calls == SortedByStrike(calls0, FALSE)
                      puts == SortedByStrike(puts0, TRUE)
                      short_call == find_closest_delta(calls, target_delta)
                      short_put == find_closest_delta(puts, target_delta)
                  IN  IF short_call = None \/ short_put = None THEN None
                      ELSE LET long_call == NextStrikeOut(calls, short_call[1], "call")
                               long_put == NextStrikeOut(puts, short_put[1], "put")
                           IN  IF long_call = None \/ long_put = None THEN None
                               ELSE Some([short_call |-> short_call[1],
                                          long_call |-> long_call[1],
                                          short_put |-> short_put[1],
                                          long_put |-> long_put[1]])

\* Mutant: the long legs are priced at their bid.
Credit_long_bid(legs) ==
    legs.short_call.bid + legs.short_put.bid - legs.long_call.bid - legs.long_put.bid

\* credit = (short_call.bid + short_put.bid - long_call.ask - long_put.ask) * 100
Credit(legs) == legs.short_call.bid + legs.short_put.bid - legs.long_call.ask - legs.long_put.ask

\* max(call-spread width, put-spread width) * 100
Width100(legs) ==
    Max(legs.long_call.strike - legs.short_call.strike,
        legs.short_put.strike - legs.long_put.strike) * 100

\* app.py find_iron_condor_strikes: the candidate, or None
App_find_iron_condor_strikes(options_data, expiration, current_price, target_delta) ==
    LET sel == SelectLegs(options_data, expiration, current_price, target_delta)
    IN  IF sel = None THEN None
        ELSE LET legs == sel[1]
                 credit == Credit(legs)
                 max_loss == Width100(legs) - credit
             IN  Some(legs @@
                      [max_profit |-> Max(credit, 0),
                       max_loss |-> Max(max_loss, 0),
                       breakeven_upper |-> legs.short_call.strike * 100 + Max(credit, 0),
                       breakeven_lower |-> legs.short_put.strike * 100 - Max(credit, 0),
                       pop |-> 100 - Abs(legs.short_call.greeks.delta)
                                   - Abs(legs.short_put.greeks.delta)])

\* analysis.py find_iron_condor_strikes: the candidate, or None
Analysis_find_iron_condor_strikes(options_data, expiration, current_price, target_delta) ==
    LET sel == SelectLegs(options_data, expiration, current_price, target_delta)
    IN  IF sel = None THEN None
        ELSE LET legs == sel[1]
                 credit == Credit(legs)
                 max_loss == Width100(legs) - credit
                 pop == 100 - Abs(legs.short_call.greeks.delta)
                            - Abs(legs.short_put.greeks.delta)
                 breakeven_upper == legs.short_call.strike * 100 + credit
                 breakeven_lower == legs.short_put.strike * 100 - credit
             IN  Some(legs @@
                      [max_profit |-> Max(credit, 0),
                       max_loss |-> Max(max_loss, 0),
                       pop |-> pop,
                       breakeven_upper |-> breakeven_upper,
                       breakeven_lower |-> breakeven_lower])

\* ----- inputs of the strike selector -----

Spot == 580

TargetDeltas == {20}

\* three quotings of a chain, as <<bid, ask>> of a strike at a distance from the
\* spot: premiums that fall with the distance (the condor nets a credit),
\* premiums that rise with it (the condor nets a debit), and premiums that fall
\* so steeply that the credit exceeds the width of the spreads
Pricings == {"credit", "debit", "rich"}

BidAsk(pricing, strike) ==
    LET steps == Abs(strike - Spot) \div 5
    IN  CASE pricing = "credit" -> <<200 - 50 * steps, 210 - 50 * steps>>
          [] pricing = "debit" -> <<10 + 400 * (steps - 1), 20 + 400 * (steps - 1)>>
          [] pricing = "rich" -> <<1000 - 300 * steps, 1010 - 300 * steps>>

\* the deltas a strike may be quoted with; 0 stands for "strike not quoted".
\* 575 is an in-the-money call, 585 an in-the-money put.
CallDeltas == [s \in {575, 585, 590, 595} |->
                 CASE s = 575 -> {0, 60}
                   [] s = 585 -> {0, 25, 60}
                   [] s = 590 -> {0, 15, 25, 65}
                   [] s = 595 -> {0, 8}]

PutDeltas == [s \in {585, 575, 570, 565} |->
                 CASE s = 585 -> {0, -60}
                   [] s = 575 -> {0, -25, -60}
                   [] s = 570 -> {0, -15, -25, -65}
                   [] s = 565 -> {0, -8}]

\* the quotes of one side in ascending strike, as the data source lists them
SideQuotes(type, strikes, deltas, pricing) ==
    LET All == [i \in DOMAIN strikes |->
                   OptionQuote(type, strikes[i], BidAsk(pricing, strikes[i])[1],
                               BidAsk(pricing, strikes[i])[2], deltas[strikes[i]])]
        Quoted(q) == q.greeks.delta # 0
    IN  SelectSeq(All, Quoted)

\* the orders a chain may come in: calls then puts by ascending strike,
\* the reverse of that, and the odd places followed by the even places
Orders == {"listed", "reversed", "shuffled"}

Reordered(s, order) ==
    CASE order = "listed" -> s
      [] order = "reversed" -> [i \in DOMAIN s |-> s[Len(s) + 1 - i]]
      [] order = "shuffled" ->
            LET Odd(i) == i % 2 = 1
                Even(i) == i % 2 = 0
                idx == [i \in DOMAIN s |-> i]
                perm == SelectSeq(idx, Odd) \o SelectSeq(idx, Even)
            IN  [i \in DOMAIN s |-> s[perm[i]]]

\* one delta (or "not quoted") for every strike of a side
Quotings(deltas) ==
    {f \in [DOMAIN deltas -> UNION {deltas[s] : s \in DOMAIN deltas}] :
        \A s \in DOMAIN deltas : f[s] \in deltas[s]}

Chains ==
    { Reordered(SideQuotes("call", <<575, 585, 590, 595>>, cd, pricing)
                \o SideQuotes("put", <<565, 570, 575, 585>>, pd, pricing), order) :
        cd \in Quotings(CallDeltas), pd \in Quotings(PutDeltas),
        pricing \in Pricings, order \in Orders }

\* the expiration asked for, and one the chain does not have
RequestedExpirations == {"2025-06-20", "2025-07-18"}

\* ----- the strike selector applied -----

SelectorInit ==
    /\ LedgerIdle
    /\ \E module \in Modules, chain \in Chains, expiration \in RequestedExpirations,
          target_delta \in TargetDeltas :
          analysis = Pending("find_iron_condor_strikes", module,
                             <<[e \in Expirations |-> chain], expiration, Spot, target_delta>>)

\* app.py: ic_setup = find_iron_condor_strikes(options_data, selected_expiry, current_price, target_delta)
AppSelect ==
    /\ IsPending("find_iron_condor_strikes", "app")
    /\ analysis' = [analysis EXCEPT !.ret =
          <<App_find_iron_condor_strikes(analysis.args[1], analysis.args[2],
                                         analysis.args[3], analysis.args[4])>>]
    /\ UNCHANGED <<impl, session_state, last_error>>

\* ui/paper_trading_ui.py: setup = find_iron_condor_strikes(options_data, selected_expiry, current_price, delta)
AnalysisSelect ==
    /\ IsPending("find_iron_condor_strikes", "analysis")
    /\ analysis' = [analysis EXCEPT !.ret =
          <<Analysis_find_iron_condor_strikes(analysis.args[1], analysis.args[2],
                                              analysis.args[3], analysis.args[4])>>]
    /\ UNCHANGED <<impl, session_state, last_error>>

SelectorNext == AppSelect \/ AnalysisSelect

SelectorSpec == SelectorInit /\ [][SelectorNext]_vars

(***************************************************************************)
(* Claims about the Strike Selector (under SelectorSpec)                   *)
(***************************************************************************)
\* a selector has returned; it returned a candidate
Selected == analysis.fn = "find_iron_condor_strikes" /\ analysis.ret # <<>>

Returned == Selected /\ analysis.ret[1] # None

Candidate == analysis.ret[1][1]

SpotOf == analysis.args[3]

TargetOf == analysis.args[4]

ExpirationQuoted == analysis.args[2] \in DOMAIN analysis.args[1]

\* the quotes of the expiration asked for, in the order of the chain
ChainOf == analysis.args[1][analysis.args[2]]

\* the out-of-the-money quotes of a side
EligibleQuotes(type) ==
    {q \in {ChainOf[i] : i \in DOMAIN ChainOf} :
        /\ q.type = type
        /\ IF type = "call" THEN q.strike > SpotOf ELSE q.strike < SpotOf}

\* C14: every returned candidate has short_call.strike < long_call.strike,
\* short_put.strike > long_put.strike and short_put.strike < spot <
\* short_call.strike.
C14_LegOrdering ==
    Returned =>
        /\ Candidate.short_call.strike < Candidate.long_call.strike
        /\ Candidate.short_put.strike > Candidate.long_put.strike
        /\ Candidate.short_put.strike < SpotOf
        /\ SpotOf < Candidate.short_call.strike

\* a candidate returned from a chain that also quotes in-the-money strikes
C14_Witness ==
    /\ Returned
    /\ \E i, j \in DOMAIN ChainOf :
          /\ ChainOf[i].type = "call" /\ ChainOf[i].strike <= SpotOf
          /\ ChainOf[j].type = "put" /\ ChainOf[j].strike >= SpotOf

\* C15: every returned candidate has breakeven_lower < spot < breakeven_upper,
\* whatever the bids and asks, a net debit included.
C15_BreakevensBracketSpot ==
    Returned =>
        /\ Candidate.breakeven_lower < SpotOf * 100
        /\ SpotOf * 100 < Candidate.breakeven_upper

\* the leg is a quote of its side that is nearest the target delta, and of the
\* quotes as near it is the one nearest the spot
IsShortLeg(leg, type) ==
    /\ leg \in EligibleQuotes(type)
    /\ \A q \in EligibleQuotes(type) :
          /\ Abs(Abs(leg.greeks.delta) - TargetOf) <= Abs(Abs(q.greeks.delta) - TargetOf)
          /\ Abs(Abs(leg.greeks.delta) - TargetOf) = Abs(Abs(q.greeks.delta) - TargetOf)
                => Abs(leg.strike - SpotOf) <= Abs(q.strike - SpotOf)

\* C16: short_call is an eligible call (strike > spot) whose |delta| is nearest
\* the target delta among the eligible calls, short_put likewise among the
\* eligible puts (strike < spot); of exactly tied quotes the one whose strike is
\* nearest the spot is taken.
C16_ShortLegSelection ==
    Returned =>
        /\ IsShortLeg(Candidate.short_call, "call")
        /\ IsShortLeg(Candidate.short_put, "put")

\* a candidate whose short call sat in an exact tie with a further call
C16_Witness ==
    /\ Returned
    /\ \E q \in EligibleQuotes("call") :
          /\ q.strike > Candidate.short_call.strike
          /\ Abs(Abs(q.greeks.delta) - TargetOf)
                = Abs(Abs(Candidate.short_call.greeks.delta) - TargetOf)

\* C17: long_call is the eligible call of the least strike above
\* short_call.strike, long_put the eligible put of the greatest strike below
\* short_put.strike, in whatever order the chain lists its quotes.
C17_LongLegSelection ==
    Returned =>
        /\ Candidate.long_call \in EligibleQuotes("call")
        /\ Candidate.long_call.strike > Candidate.short_call.strike
        /\ \A q \in EligibleQuotes("call") :
              ~(Candidate.short_call.strike < q.strike
                /\ q.strike < Candidate.long_call.strike)
        /\ Candidate.long_put \in EligibleQuotes("put")
        /\ Candidate.long_put.strike < Candidate.short_put.strike
        /\ \A q \in EligibleQuotes("put") :
              ~(Candidate.long_put.strike < q.strike
                /\ q.strike < Candidate.short_put.strike)

\* a candidate from a chain that lists a further call before a nearer one, with
\* two calls beyond the short call
C17_Witness ==
    /\ Returned
    /\ \E i, j \in DOMAIN ChainOf :
          /\ i < j
          /\ ChainOf[i] \in EligibleQuotes("call") /\ ChainOf[j] \in EligibleQuotes("call")
          /\ ChainOf[i].strike > ChainOf[j].strike
          /\ ChainOf[j].strike > Candidate.short_call.strike

\* the quote of a side the claim C16 makes the short leg
ShortLegOf(type) == CHOOSE q \in EligibleQuotes(type) : IsShortLeg(q, type)

\* no quote of the side lies further out than its short leg
ShortLegIsExtreme(type) ==
    \A q \in EligibleQuotes(type) :
        IF type = "call" THEN q.strike <= ShortLegOf(type).strike
        ELSE q.strike >= ShortLegOf(type).strike

\* the three cases without a valid candidate
NoValidCandidate ==
    \/ ~ExpirationQuoted
    \/ /\ ExpirationQuoted
       /\ \/ EligibleQuotes("call") = {}
          \/ EligibleQuotes("put") = {}
          \/ ShortLegIsExtreme("call")
          \/ ShortLegIsExtreme("put")

CandidateFields ==
    {"short_call", "long_call", "short_put", "long_put", "max_profit", "max_loss",
     "breakeven_upper", "breakeven_lower", "pop"}

\* C18: find_iron_condor_strikes returns None, and no partial candidate, when
\* the expiration is not in the chain, when no call lies above the spot or no
\* put below it, or when a selected short leg is the most extreme strike of its
\* side; what it returns otherwise is a complete candidate.
C18_NoValidCandidate ==
    Selected =>
        /\ NoValidCandidate => analysis.ret[1] = None
        /\ analysis.ret[1] # None =>
              /\ DOMAIN Candidate = CandidateFields
              /\ Candidate.long_call # Candidate.short_call
              /\ Candidate.long_put # Candidate.short_put

\* None returned because the short call has no strike beyond it, although the
\* expiration is quoted with calls above and puts below the spot
C18_Witness ==
    /\ Selected
    /\ analysis.ret[1] = None
    /\ ExpirationQuoted
    /\ EligibleQuotes("call") # {} /\ EligibleQuotes("put") # {}
    /\ ShortLegIsExtreme("call")
    /\ ~ShortLegIsExtreme("put")

\* C19: pop of every returned candidate is
\* (1 - |short_call.delta| - |short_put.delta|) x 100 clamped to [0, 100],
\* whatever deltas the chain carries.
C19_PopClamped ==
    Returned =>
        LET raw == 100 - Abs(Candidate.short_call.greeks.delta)
                       - Abs(Candidate.short_put.greeks.delta)
        IN  Candidate.pop = Max(0, IF raw > 100 THEN 100 ELSE raw)

(***************************************************************************)
(* Pricing Model: calculate_delta, calculate_gamma, calculate_theta,       *)
(* calculate_vega and calculate_rho of src/app.py and of src/src/greeks.py. *)
(*                                                                         *)
(* S and K are whole dollars, T whole days, sigma and the values returned  *)
(* are in hundredths (1.0 is 100, -0.05 is -5).  The values the            *)
(* Black-Scholes expressions give for T > 0 are not computed: such a       *)
(* result is carried as Formula, with the name of the Greek.  The         *)
(* parameter option_type is written side.                                   *)
(***************************************************************************)
Const(v) == [kind |-> "const", v |-> v]

Formula(greek) == [kind |-> greek, v |-> 0]

\* d1 = (log(S / K) + ...) / (sigma * sqrt(T / 365)) raises, for T > 0: S / K
\* with K = 0, log of a ratio that is not positive, division by sigma = 0
D1Raises(S, K, sigma) == K = 0 \/ S * K <= 0 \/ sigma = 0

\* app.py calculate_delta
App_calculate_delta(S, K, T, sigma, side) ==
    IF T <= 0
    THEN IF side = "call" /\ S > K THEN Const(100) ELSE Const(0)
    ELSE IF D1Raises(S, K, sigma)
         THEN IF side = "call" THEN Const(50) ELSE Const(-50)
         ELSE Formula("delta")

\* app.py calculate_gamma
App_calculate_gamma(S, K, T, sigma) ==
    IF T <= 0 THEN Const(0)
    ELSE IF D1Raises(S, K, sigma) THEN Const(1)
    ELSE Formula("gamma")

\* app.py calculate_theta
App_calculate_theta(S, K, T, sigma, side) ==
    IF T <= 0 THEN Const(0)
    ELSE IF D1Raises(S, K, sigma) THEN Const(-5)
    ELSE Formula("theta")

\* app.py calculate_vega
App_calculate_vega(S, K, T, sigma) ==
    IF T <= 0 THEN Const(0)
    ELSE IF D1Raises(S, K, sigma) THEN Const(15)
    ELSE Formula("vega")

\* app.py calculate_rho
App_calculate_rho(S, K, T, sigma, side) ==
    IF T <= 0 THEN Const(0)
    ELSE IF D1Raises(S, K, sigma) THEN Const(1)
    ELSE Formula("rho")

\* greeks.py calculate_delta
Greeks_calculate_delta(S, K, T, sigma, side) ==
    IF T <= 0
    THEN IF side = "call"
         THEN IF S > K THEN Const(100) ELSE Const(0)
         ELSE IF S < K THEN Const(-100) ELSE Const(0)
    ELSE IF D1Raises(S, K, sigma)
         THEN IF side = "call" THEN Const(50) ELSE Const(-50)
         ELSE Formula("delta")

\* greeks.py calculate_gamma
Greeks_calculate_gamma(S, K, T, sigma) ==
    IF T <= 0 THEN Const(0)
    ELSE IF D1Raises(S, K, sigma) THEN Const(1)
    ELSE Formula("gamma")

\* greeks.py calculate_theta
Greeks_calculate_theta(S, K, T, sigma, side) ==
    IF T <= 0 THEN Const(0)
    ELSE IF D1Raises(S, K, sigma) THEN Const(-5)
    ELSE Formula("theta")

\* greeks.py calculate_vega
Greeks_calculate_vega(S, K, T, sigma) ==
    IF T <= 0 THEN Const(0)
    ELSE IF D1Raises(S, K, sigma) THEN Const(15)
    ELSE Formula("vega")

\* greeks.py calculate_rho
Greeks_calculate_rho(S, K, T, sigma, side) ==
    IF T <= 0 THEN Const(0)
    ELSE IF D1Raises(S, K, sigma) THEN Const(1)
    ELSE Formula("rho")

\* ----- inputs of the pricing model -----

GreekFunctions ==
    {"calculate_delta", "calculate_gamma", "calculate_theta", "calculate_vega", "calculate_rho"}

\* gamma and vega take no option_type
TakesSide(fn) == fn \in {"calculate_delta", "calculate_theta", "calculate_rho"}

SpotPrices == {0, 570, 580, 590}

Strikes == {0, 580}

DaysToExpiry == {-1, 0, 30}

Sigmas == {0, 20}

Sides == {"call", "put"}

PricingModules == {"app", "greeks"}

\* ----- the pricing model applied -----

GreeksInit ==
    /\ LedgerIdle
    /\ \E module \in PricingModules, fn \in GreekFunctions, S \in SpotPrices, K \in Strikes,
          T \in DaysToExpiry, sigma \in Sigmas, side \in Sides :
          analysis = Pending(fn, module,
                             IF TakesSide(fn) THEN <<S, K, T, sigma, side>>
                             ELSE <<S, K, T, sigma>>)

\* app.py: the Greeks of one quote, as get_yahoo_options_chain computes them
AppGreek ==
    /\ analysis.fn \in GreekFunctions /\ IsPending(analysis.fn, "app")
    /\ LET a == analysis.args
       IN  analysis' = [analysis EXCEPT !.ret = <<
             CASE analysis.fn = "calculate_delta" -> App_calculate_delta(a[1], a[2], a[3], a[4], a[5])
               [] analysis.fn = "calculate_gamma" -> App_calculate_gamma(a[1], a[2], a[3], a[4])
               [] analysis.fn = "calculate_theta" -> App_calculate_theta(a[1], a[2], a[3], a[4], a[5])
               [] analysis.fn = "calculate_vega" -> App_calculate_vega(a[1], a[2], a[3], a[4])
               [] analysis.fn = "calculate_rho" -> App_calculate_rho(a[1], a[2], a[3], a[4], a[5]) >>]
    /\ UNCHANGED <<impl, session_state, last_error>>

\* src/src/data.py: the Greeks of one quote, from src/src/greeks.py
GreeksGreek ==
    /\ analysis.fn \in GreekFunctions /\ IsPending(analysis.fn, "greeks")
    /\ LET a == analysis.args
       IN  analysis' = [analysis EXCEPT !.ret = <<
             CASE analysis.fn = "calculate_delta" -> Greeks_calculate_delta(a[1], a[2], a[3], a[4], a[5])
               [] analysis.fn = "calculate_gamma" -> Greeks_calculate_gamma(a[1], a[2], a[3], a[4])
               [] analysis.fn = "calculate_theta" -> Greeks_calculate_theta(a[1], a[2], a[3], a[4], a[5])
               [] analysis.fn = "calculate_vega" -> Greeks_calculate_vega(a[1], a[2], a[3], a[4])
               [] analysis.fn = "calculate_rho" -> Greeks_calculate_rho(a[1], a[2], a[3], a[4], a[5]) >>]
    /\ UNCHANGED <<impl, session_state, last_error>>

GreeksNext == AppGreek \/ GreeksGreek

GreeksSpec == GreeksInit /\ [][GreeksNext]_vars

(***************************************************************************)
(* Claims about the Pricing Model (under GreeksSpec)                       *)
(***************************************************************************)
\* a Greek has been computed
Priced == analysis.fn \in GreekFunctions /\ analysis.ret # <<>>

\* C20: for T <= 0, Delta is 1.0 for a call with S > K and 0.0 otherwise, -1.0
\* for a put with S < K and 0.0 otherwise, and Gamma, Theta, Vega and Rho are
\* 0.0.
C20_AtExpiry ==
    Priced /\ analysis.args[3] <= 0 =>
        LET S == analysis.args[1]
            K == analysis.args[2]
        IN  IF analysis.fn = "calculate_delta"
            THEN IF analysis.args[5] = "call"
                 THEN analysis.ret[1] = Const(IF S > K THEN 100 ELSE 0)
                 ELSE analysis.ret[1] = Const(IF S < K THEN -100 ELSE 0)
            ELSE analysis.ret[1] = Const(0)

\* the documented fallback constant of a Greek, in hundredths
FallbackOf(fn, args) ==
    CASE fn = "calculate_delta" -> Const(IF args[5] = "call" THEN 50 ELSE -50)
      [] fn = "calculate_gamma" -> Const(1)
      [] fn = "calculate_theta" -> Const(-5)
      [] fn = "calculate_vega" -> Const(15)
      [] fn = "calculate_rho" -> Const(1)

\* C21: for sigma = 0, K = 0 or T < 0 each calculate_* function returns the
\* documented fallback constant of its Greek (delta 0.5 for calls and -0.5 for
\* puts, gamma 0.01, theta -0.05, vega 0.15, rho 0.01).
C21_FallbackConstant ==
    Priced /\ (analysis.args[4] = 0 \/ analysis.args[2] = 0 \/ analysis.args[3] < 0) =>
        analysis.ret[1] = FallbackOf(analysis.fn, analysis.args)

(***************************************************************************)
(* Indicator Engine: calculate_indicators of app.py and of                 *)
(* src/src/analysis.py.  A price frame is [close, cols]: close holds the   *)
(* closing prices (Val or NaN), cols maps each column name to a series of  *)
(* flags, TRUE where the cell holds a number and FALSE where it holds NaN. *)
(* The pandas operations are modelled by where they produce NaN.           *)
(***************************************************************************)
\* the rows a rolling window of w bars ending at row i covers
Window(i, w) == Max(1, i - w + 1)..i

\* Series.rolling(w, min_periods=1).mean(): a number once one observation is in the window
Rolling_mean(s, w) == [i \in 1..Len(s) |-> \E j \in Window(i, w) : s[j]]

\* Series.rolling(w, min_periods=1).std(): the sample deviation needs two observations
Rolling_std(s, w) == [i \in 1..Len(s) |-> Cardinality({j \in Window(i, w) : s[j]}) >= 2]

\* Series.diff()
Series_diff(s) == [i \in 1..Len(s) |-> i > 1 /\ s[i] /\ s[i - 1]]

\* Series.shift()
Series_shift(s) == [i \in 1..Len(s) |-> i > 1 /\ s[i - 1]]

\* a + b, a - b, a / b, a * 2, a.abs(): NaN where an operand is NaN
Arith(a, b) == [i \in 1..Len(a) |-> a[i] /\ b[i]]

\* Series.where(cond, 0): the condition is False on NaN, which gives the 0
Series_where(s) == [i \in 1..Len(s) |-> TRUE]

\* Series.ewm(span, adjust=False).mean(): carries the average over a gap
Ewm_mean(s) == [i \in 1..Len(s) |-> \E j \in 1..i : s[j]]

\* pd.concat([a, b, c], axis=1).max(axis=1): skips NaN
Row_max(a, b, c) == [i \in 1..Len(a) |-> a[i] \/ b[i] \/ c[i]]

\* Series.replace(0, np.nan), zeros being the rows that hold 0
Series_replace(s, zeros) == [i \in 1..Len(s) |-> s[i] /\ i \notin zeros]

\* Series.fillna(value)
Series_fillna(s) == [i \in 1..Len(s) |-> TRUE]

\* bfill(): the next number below; ffill(): the last number above
Series_bfill(s) == [i \in 1..Len(s) |-> \E j \in i..Len(s) : s[j]]

Series_ffill(s) == [i \in 1..Len(s) |-> \E j \in 1..i : s[j]]

\* df.bfill().ffill().fillna(0), over every column of the frame
Frame_fill(cols) == [c \in DOMAIN cols |-> Series_fillna(Series_ffill(Series_bfill(cols[c])))]

\* the rows whose close is below the close of the row before
DownMoves(df) ==
    {i \in 2..Len(df.close) :
        /\ ~df.close[i].nan /\ ~df.close[i - 1].nan
        /\ df.close[i].v < df.close[i - 1].v}

\* the rows where the 14-bar mean of the down moves is exactly 0
ZeroLoss(df) == {i \in 1..Len(df.close) : Window(i, 14) \cap DownMoves(df) = {}}

\* src/src/analysis.py calculate_indicators
Analysis_calculate_indicators(df) ==
    IF Len(df.close) < 5 THEN df
    ELSE LET c == df.cols
             SMA20 == Rolling_mean(c["Close"], 20)
             BB_std == Rolling_std(c["Close"], 20)
             BB_upper == Arith(SMA20, BB_std)
             BB_lower == Arith(SMA20, BB_std)
             BB_width == Arith(Arith(BB_upper, BB_lower), SMA20)
             delta == Series_diff(c["Close"])
             gain == Rolling_mean(Series_where(delta), 14)
             loss == Rolling_mean(Series_where(delta), 14)
             rs == Series_fillna(Arith(gain, Series_replace(loss, ZeroLoss(df))))
             RSI == Series_fillna(rs)
             ema12 == Ewm_mean(c["Close"])
             ema26 == Ewm_mean(c["Close"])
             MACD == Arith(ema12, ema26)
             MACD_signal == Ewm_mean(MACD)
             MACD_hist == Arith(MACD, MACD_signal)
             high_low == Arith(c["High"], c["Low"])
             high_close == Arith(c["High"], Series_shift(c["Close"]))
             low_close == Arith(c["Low"], Series_shift(c["Close"]))
             true_range == Row_max(high_low, high_close, low_close)
             ATR == Rolling_mean(true_range, 14)
             ATR_pct == Arith(ATR, c["Close"])
             enriched ==
                 [name \in DOMAIN c \cup {"SMA20", "BB_std", "BB_upper", "BB_lower", "BB_width",
                                          "RSI", "MACD", "MACD_signal", "MACD_hist", "ATR",
                                          "ATR_pct"} |->
                     CASE name = "SMA20" -> SMA20
                       [] name = "BB_std" -> BB_std
                       [] name = "BB_upper" -> BB_upper
                       [] name = "BB_lower" -> BB_lower
                       [] name = "BB_width" -> BB_width
                       [] name = "RSI" -> RSI
                       [] name = "MACD" -> MACD
                       [] name = "MACD_signal" -> MACD_signal
                       [] name = "MACD_hist" -> MACD_hist
                       [] name = "ATR" -> ATR
                       [] name = "ATR_pct" -> ATR_pct
                       [] OTHER -> c[name]]
         IN  [df EXCEPT !.cols = Frame_fill(enriched)]

\* app.py calculate_indicators
App_calculate_indicators(df) ==
    IF Len(df.close) = 0 \/ Len(df.close) < 50 THEN df
    ELSE LET c == df.cols
             SMA20 == Rolling_mean(c["Close"], 20)
             BB_std == Rolling_std(c["Close"], 20)
             BB_upper == Arith(SMA20, BB_std)
             BB_lower == Arith(SMA20, BB_std)
             BB_width == Arith(Arith(BB_upper, BB_lower), SMA20)
             delta == Series_diff(c["Close"])
             gain == Rolling_mean(Series_where(delta), 14)
             loss == Rolling_mean(Series_where(delta), 14)
             rs == Arith(gain, loss)
             RSI == rs
             EMA12 == Ewm_mean(c["Close"])
             EMA26 == Ewm_mean(c["Close"])
             MACD == Arith(EMA12, EMA26)
             MACD_signal == Ewm_mean(MACD)
             high_low == Arith(c["High"], c["Low"])
             high_close == Arith(c["High"], Series_shift(c["Close"]))
             low_close == Arith(c["Low"], Series_shift(c["Close"]))
             TR == Row_max(high_low, high_close, low_close)
             ATR == Rolling_mean(TR, 14)
             ATR_pct == Arith(ATR, c["Close"])
             enriched ==
                 [name \in DOMAIN c \cup {"SMA20", "BB_std", "BB_upper", "BB_lower", "BB_width",
                                          "RSI", "EMA12", "EMA26", "MACD", "MACD_signal", "TR",
                                          "ATR", "ATR_pct"} |->
                     CASE name = "SMA20" -> SMA20
                       [] name = "BB_std" -> BB_std
                       [] name = "BB_upper" -> BB_upper
                       [] name = "BB_lower" -> BB_lower
                       [] name = "BB_width" -> BB_width
                       [] name = "RSI" -> RSI
                       [] name = "EMA12" -> EMA12
                       [] name = "EMA26" -> EMA26
                       [] name = "MACD" -> MACD
                       [] name = "MACD_signal" -> MACD_signal
                       [] name = "TR" -> TR
                       [] name = "ATR" -> ATR
                       [] name = "ATR_pct" -> ATR_pct
                       [] OTHER -> c[name]]
         IN  [df EXCEPT !.cols = Frame_fill(enriched)]

\* ----- inputs of the indicator engine -----

\* lengths of the price series, around the two length tests and the windows
SeriesLens == {1, 2, 4, 5, 6, 14, 20, 26, 49, 50, 60}

\* the shape of the closing prices, and the row (0: none) whose close is missing
Shapes == {"rising", "falling", "flat", "zigzag"}

CloseAt(shape, i) ==
    CASE shape = "rising" -> 500 + i
      [] shape = "falling" -> 600 - i
      [] shape = "flat" -> 580
      [] shape = "zigzag" -> 580 + (i % 2)

PriceFrame(n, shape, gap) ==
    [close |-> [i \in 1..n |-> IF i = gap THEN NaN ELSE Val(CloseAt(shape, i))],
     cols |-> [name \in {"Open", "High", "Low", "Close", "Volume"} |->
                  [i \in 1..n |-> ~(name = "Close" /\ i = gap)]]]

PriceFrames ==
    {PriceFrame(n, shape, gap) : n \in SeriesLens, shape \in Shapes, gap \in {0, 1, 2}}

\* ----- the indicator engine applied -----

IndicatorInit ==
    /\ LedgerIdle
    /\ \E module \in Modules, df \in PriceFrames :
          analysis = Pending("calculate_indicators", module, <<df>>)

\* app.py main: df = calculate_indicators(df)
AppIndicators ==
    /\ IsPending("calculate_indicators", "app")
    /\ analysis' = [analysis EXCEPT !.ret = <<App_calculate_indicators(analysis.args[1])>>]
    /\ UNCHANGED <<impl, session_state, last_error>>

\* src/src/analysis.py calculate_indicators, called on a fetched frame
AnalysisIndicators ==
    /\ IsPending("calculate_indicators", "analysis")
    /\ analysis' = [analysis EXCEPT !.ret = <<Analysis_calculate_indicators(analysis.args[1])>>]
    /\ UNCHANGED <<impl, session_state, last_error>>

IndicatorNext == AppIndicators \/ AnalysisIndicators

IndicatorSpec == IndicatorInit /\ [][IndicatorNext]_vars

(***************************************************************************)
(* Claims about the Indicator Engine (under IndicatorSpec)                 *)
(***************************************************************************)
\* calculate_indicators has returned
Enriched == analysis.fn = "calculate_indicators" /\ analysis.ret # <<>>

\* the derived columns the scorer and the charts read
DerivedColumns ==
    {"SMA20", "BB_upper", "BB_lower", "BB_width", "RSI", "MACD", "MACD_signal", "ATR", "ATR_pct"}

\* C22: for a price series of length >= 1, after calculate_indicators every
\* derived column (SMA20, band bounds and width, RSI, MACD line and signal,
\* ATR, ATR%) exists and holds a defined value in every row.
C22_FillCompleteness ==
    Enriched /\ Len(analysis.args[1].close) >= 1 =>
        LET out == analysis.ret[1]
        IN  \A name \in DerivedColumns :
                /\ name \in DOMAIN out.cols
                /\ \A i \in 1..Len(out.close) : out.cols[name][i]

(***************************************************************************)
(* Claims about the close protocol (under Spec)                            *)
(***************************************************************************)
\* the running total of realized P&L: the percentage ledger and the session
\* dictionary keep it in a field, the closing-cost ledger sums it on demand
RunningTotalOf(ss) ==
    CASE impl = "paper" -> PortfolioOf(ss).total_pnl
      [] impl = "paper_trading" -> PT_get_stats(PortfolioOf(ss)).realized_pnl
      [] impl = "app" -> PortfolioOf(ss).total_pl

\* every close call of the session's ledger on ss: the id it names, the P&L the
\* ledger's closing protocol gives the position, whether it was accepted, the
\* session it leaves
CloseRequests(ss) ==
    LET open == OpenOf(ss)
        held(id) == open[FirstWithId(open, id)]
    IN  CASE impl = "paper" ->
                { LET r == Paper_close_position(PortfolioOf(ss), in.id, in.pnl_pct)
                  IN  [id |-> in.id,
                       pnl |-> IF in.id \in IdsOf(open)
                               THEN (held(in.id).entry_credit * in.pnl_pct) \div 100
                               ELSE 0,
                       ok |-> r.ok,
                       ss |-> WithPortfolio(ss, r.self)] :
                  in \in [id : PositionIds, pnl_pct : PnlPcts] }
          [] impl = "paper_trading" ->
                { LET r == PT_close_position(PortfolioOf(ss), in.id, "2025-05-20", 580, in.cost)
                  IN  [id |-> in.id,
                       pnl |-> IF in.id \in IdsOf(open)
                               THEN held(in.id).total_credit - in.cost
                               ELSE 0,
                       ok |-> r.ret # None,
                       ss |-> WithPortfolio(ss, r.self)] :
                  in \in [id : PositionIds, cost : ClosingCosts] }
          [] impl = "app" ->
                { LET r == close_paper_trade(ss, in.id, in.data, "Manual close")
                  IN  [id |-> in.id,
                       pnl |-> IF in.id \in IdsOf(open)
                               THEN calculate_position_value(held(in.id), in.data)[2]
                               ELSE 0,
                       ok |-> r.ret,
                       ss |-> r.ss] :
                  in \in [id : PositionIds, data : OptionsData] }

Tier(strong, mild, adverse) ==
    IF strong THEN Contribution(2, 0)
    ELSE IF mild THEN Contribution(1, 0)
    ELSE IF adverse THEN Contribution(0, 2)
    ELSE Contribution(0, 0)

\* the rule table of specification section 4.3 on a complete snapshot, in the
\* units of the frames: Bollinger position p = (price - lower) / (upper - lower)
\* compared as 10 * (price - lower) against 10 * p * (upper - lower), ATR% and
\* MACD in tenths
RuleTable(latest, price) ==
    LET rsi == latest["RSI"].v
        lower == latest["BB_lower"].v
        range == latest["BB_upper"].v - latest["BB_lower"].v
        pos10 == 10 * (price - lower)
        width == latest["BB_width"].v
        atr == latest["ATR_pct"].v
        macd == Abs(latest["MACD"].v)
    IN  <<Tier(45 <= rsi /\ rsi <= 55, 40 <= rsi /\ rsi <= 60, rsi < 30 \/ rsi > 70),
          IF range = 0 THEN Contribution(0, 0)
          ELSE Tier(4 * range <= pos10 /\ pos10 <= 6 * range,
                    3 * range <= pos10 /\ pos10 <= 7 * range,
                    pos10 < 2 * range \/ pos10 > 8 * range),
          Tier(width < 5, width < 7, width > 10),
          Tier(atr < 8, atr < 12, atr > 20),
          IF macd * 100 < 3 * price THEN Contribution(1, 0)
          ELSE IF macd * 10 > price THEN Contribution(0, 1)
          ELSE Contribution(0, 0)>>

\* C24: on a complete snapshot with a positive price, entry_score and
\* risk_score are the sums of the five rules of the table, each applied
\* independently: RSI [45,55] entry+2, [40,60] entry+1, <30 or >70 risk+2;
\* Bollinger position [0.4,0.6] entry+2, [0.3,0.7] entry+1, <0.2 or >0.8 risk+2,
\* nothing on a zero band width; band width <5 entry+2, <7 entry+1, >10 risk+2;
\* ATR% <0.8 entry+2, <1.2 entry+1, >2.0 risk+2; MACD strength <0.3 entry+1,
\* >1.0 risk+1.
C24_RuleTable ==
    Scored /\ ~Incomplete(analysis.args[1]) /\ analysis.args[2] > 0 =>
        LET t == RuleTable(analysis.args[1].latest, analysis.args[2])
        IN  /\ analysis.ret[1] = t[1][1] + t[2][1] + t[3][1] + t[4][1] + t[5][1]
            /\ analysis.ret[2] = t[1][2] + t[2][2] + t[3][2] + t[4][2] + t[5][2]

(***************************************************************************)
(* Claims about the candidate's profit and loss (under SelectorSpec)       *)
(***************************************************************************)
\* the net credit of the returned legs, in dollars per contract (bid and ask in cents)
CandidateCredit ==
    Candidate.short_call.bid + Candidate.short_put.bid
        - Candidate.long_call.ask - Candidate.long_put.ask

\* the wider of the two spreads of the returned legs, times 100
CandidateWidth100 ==
    100 * Max(Candidate.long_call.strike - Candidate.short_call.strike,
              Candidate.short_put.strike - Candidate.long_put.strike)

\* C25: every returned candidate has max_profit = max(credit, 0) and
\* max_loss = max(width x 100 - credit, 0), hence both are >= 0, and
\* max_profit + max_loss = width x 100 whenever 0 <= credit <= width x 100.
C25_ProfitAndLoss ==
    Returned =>
        /\ Candidate.max_profit = Max(CandidateCredit, 0)
        /\ Candidate.max_loss = Max(CandidateWidth100 - CandidateCredit, 0)
        /\ Candidate.max_profit >= 0
        /\ Candidate.max_loss >= 0
        /\ (0 <= CandidateCredit /\ CandidateCredit <= CandidateWidth100) =>
              Candidate.max_profit + Candidate.max_loss = CandidateWidth100

\* C25 witness: a candidate with spreads of different widths and a credit
\* strictly between 0 and the width.
C25_Witness ==
    /\ Returned
    /\ Candidate.long_call.strike - Candidate.short_call.strike
          # Candidate.short_put.strike - Candidate.long_put.strike
    /\ 0 < CandidateCredit /\ CandidateCredit < CandidateWidth100
    /\ Candidate.max_profit > 0 /\ Candidate.max_loss > 0

(***************************************************************************)
(* The percentage ledger behind its user interface (src/ui/                *)
(* paper_trading_ui.py): candidates as the strike selector returns them,   *)
(* 1 to 20 contracts, and a close at the slider's 0 to 100 percent of an   *)
(* open position picked from the select box.                               *)
(***************************************************************************)
\* candidates of the selector, with those whose credit or whose loss clamps to 0
SelectedSetups ==
    Setups \cup
    { [max_profit |-> 0, max_loss |-> 900,
       short_call |-> Leg(590, 50) @@ [expiration_date |-> "2025-06-20"],
       long_call |-> Leg(595, 150),
       short_put |-> Leg(570, 50), long_put |-> Leg(565, 150)],
      [max_profit |-> 600, max_loss |-> 0,
       short_call |-> Leg(590, 700) @@ [expiration_date |-> "2025-06-20"],
       long_call |-> Leg(595, 400),
       short_put |-> Leg(570, 700), long_put |-> Leg(565, 400)] }

\* st.number_input("Contracts (quantity)", min_value=1, max_value=20, value=1)
Contracts == {1, 10, 20}

\* st.slider("Close at % of max profit", 0, 100, 50)
SliderPcts == {0, 50, 100}

SliderInit ==
    /\ impl = "paper"
    /\ session_state = [paper_portfolio |-> None, paper_trading_enabled |-> None]
    /\ last_error = None
    /\ analysis = NoCall

\* the Open Paper Trade button
SliderOpen ==
    /\ impl = "paper" /\ HasPortfolio(session_state) /\ Opened < MaxTrades
    /\ \E setup \in SelectedSetups, quantity \in Contracts :
          LET r == Paper_open_position(Portfolio, setup, quantity)
          IN  /\ session_state' = [session_state EXCEPT !.paper_portfolio = Some(r.self)]
              /\ last_error' = Outcome("open", r.ok)
    /\ UNCHANGED <<impl, analysis>>

\* the Close Position button, on a position of the select box
SliderClose ==
    /\ impl = "paper" /\ HasPortfolio(session_state)
    /\ \E i \in 1..Len(Portfolio.positions), close_pct \in SliderPcts :
          LET r == Paper_close_position(Portfolio, Portfolio.positions[i].id, close_pct)
          IN  /\ session_state' = [session_state EXCEPT !.paper_portfolio = Some(r.self)]
              /\ last_error' = Outcome("close", r.ok)
    /\ UNCHANGED <<impl, analysis>>

SliderNext == Initialize \/ SliderOpen \/ SliderClose

SliderSpec == SliderInit /\ [][SliderNext]_vars

\* C26: in every state of the percentage ledger reached from initial cash
\* >= 0 by opens of candidates with max_profit >= 0 and max_loss >= 0 in
\* quantity >= 1 and by closes at a fraction in [0, 1], cash >= 0 and the
\* account value is at least the initial cash.
C26_CashNeverNegative ==
    Ready =>
        /\ Portfolio.cash >= 0
        /\ Paper_get_stats(Portfolio).account_value >= Portfolio.initial_cash

\* C26 witness: a position was closed at 0 percent and another is open, so the
\* account value is exactly the initial cash with part of it held as margin.
C26_Witness ==
    /\ Ready
    /\ Len(Portfolio.closed_positions) >= 1
    /\ Portfolio.closed_positions[1].realized_pnl = 0
    /\ Len(Portfolio.positions) >= 1
    /\ Portfolio.cash < Portfolio.initial_cash
    /\ Paper_get_stats(Portfolio).account_value = Portfolio.initial_cash

(***************************************************************************)
(* Claims about the disjointness of the two scores (under ScorerSpec)      *)
(***************************************************************************)
\* what each of the five rules contributed in a call that went past the guards
RuleContributions ==
    LET latest == analysis.args[1].latest
        current_price == analysis.args[2]
    IN  IF analysis.module = "app"
        THEN <<App_rsi_rule(latest), App_bb_rule(latest, current_price),
               App_width_rule(latest), App_atr_rule(latest),
               App_macd_rule(latest, current_price)>>
        ELSE <<Analysis_rsi_rule(latest), Analysis_bb_rule(latest, current_price),
               Analysis_width_rule(latest), Analysis_macd_rule(latest),
               Analysis_atr_rule(latest)>>

\* C27: each scoring rule contributes to at most one of the two scores, so
\* entry_score + risk_score <= 9, entry_score >= 6 implies risk_score <= 3 and
\* risk_score >= 6 implies entry_score <= 3: the STRONG_ENTRY and ENTRY
\* conditions never hold together with the EXIT_AVOID condition.
C27_DisjointContributions ==
    Scored =>
        LET entry == analysis.ret[1]
            risk == analysis.ret[2]
        IN  /\ entry + risk <= 9
            /\ entry >= 6 => risk <= 3
            /\ risk >= 6 => entry <= 3
            /\ PriorityLabel(entry, risk) \in {"STRONG_ENTRY", "ENTRY"} => risk < 6
            /\ Classified =>
                  /\ \A k \in 1..5 : RuleContributions[k][1] = 0 \/ RuleContributions[k][2] = 0
                  /\ entry = RuleContributions[1][1] + RuleContributions[2][1]
                        + RuleContributions[3][1] + RuleContributions[4][1]
                        + RuleContributions[5][1]
                  /\ risk = RuleContributions[1][2] + RuleContributions[2][2]
                        + RuleContributions[3][2] + RuleContributions[4][2]
                        + RuleContributions[5][2]

\* C27 witness: every rule contributed and the scores are 6 and 3.
C27_Witness ==
    /\ Classified
    /\ analysis.ret[1] = 6 /\ analysis.ret[2] = 3
    /\ \A k \in 1..5 : RuleContributions[k] # Contribution(0, 0)

(***************************************************************************)
(* Claims about the trade history of the closing-cost ledger (under Spec)  *)
(***************************************************************************)
\* the log of a closing-cost portfolio is consistent with its cash, and every
\* CLOSE entry comes after the OPEN entry of its position
HistoryConsistent(pf) ==
    LET h == pf.trade_history
    IN  /\ pf.cash = pf.initial_cash + SumField(h, "cash_change")
        /\ \A i \in 1..Len(h) : h[i].action \in {"OPEN", "CLOSE"}
        /\ \A i \in 1..Len(h) :
              h[i].action = "CLOSE" =>
                  \E j \in 1..(i - 1) :
                      h[j].action = "OPEN" /\ h[j].position_id = h[i].position_id

HistoryStep ==
    (impl = "paper_trading" /\ Ready') =>
        LET after == PortfolioOf(session_state')
            h2 == after.trade_history
        IN  /\ HistoryConsistent(after)
            /\ Ready =>
                  LET before == PortfolioOf(session_state)
                      h1 == before.trade_history
                      n == Len(h1)
                  IN  /\ IsPrefix(h1, h2)
                      /\ IF Len(after.positions) > Len(before.positions)
                         THEN LET pos == after.positions[Len(after.positions)]
                              IN  /\ Len(h2) = n + 1
                                  /\ h2[n + 1].action = "OPEN"
                                  /\ h2[n + 1].position_id = pos.id
                                  /\ h2[n + 1].cash_change = -pos.margin_required
                                  /\ after.cash = before.cash - pos.margin_required
                         ELSE IF Len(after.closed_positions) > Len(before.closed_positions)
                         THEN LET pos == after.closed_positions[Len(after.closed_positions)]
                              IN  /\ Len(h2) = n + 1
                                  /\ h2[n + 1].action = "CLOSE"
                                  /\ h2[n + 1].position_id = pos.id
                                  /\ h2[n + 1].pnl = pos.exit_pnl[1]
                                  /\ h2[n + 1].cash_change = pos.margin_required + pos.exit_pnl[1]
                                  /\ after.cash = before.cash + h2[n + 1].cash_change
                         ELSE h2 = h1 /\ after.cash = before.cash

\* C28: the trade history of the closing-cost ledger is append-only; an
\* accepted open appends exactly one OPEN entry with cash_change =
\* -margin_required, an accepted close exactly one CLOSE entry with cash_change
\* = margin_required + pnl, a rejected call (and a revaluation) appends nothing;
\* after every step cash = initial_cash + the sum of cash_change over the
\* history, and every CLOSE entry is preceded by the OPEN entry of the same
\* position_id.
C28_TradeHistory == [][HistoryStep]_vars

\* C28 witness: the history reads OPEN 1, OPEN 2, CLOSE 1 with a loss on the
\* close, and a call has just been rejected.
C28_Witness ==
    /\ impl = "paper_trading" /\ Ready
    /\ LET h == Portfolio.trade_history
       IN  /\ Len(h) = 3
           /\ h[1].action = "OPEN" /\ h[2].action = "OPEN" /\ h[3].action = "CLOSE"
           /\ h[3].position_id = 1 /\ h[3].pnl < 0
    /\ last_error # None

(***************************************************************************)
(* Expiration selection: the expiry buttons of app.py's main and           *)
(* display_expiry_selector of src/ui/components.py.  The session remembers *)
(* selected_expiry across refreshes (None: the key is not set); each       *)
(* refresh brings the expirations of the chain just fetched, and           *)
(* `analysis' holds them with the expiration handed to the strike          *)
(* selector.                                                               *)
(***************************************************************************)
\* s[:n]
Take(s, n) == SubSeq(s, 1, IF Len(s) < n THEN Len(s) ELSE n)

\* the expirations a chain offers
Offered(expirations) == {expirations[i] : i \in 1..Len(expirations)}

\* app.py main: the remembered expiration, set on the first refresh and by a
\* click on one of the first 15 expiry buttons (clicked: None, or the date of
\* the button)
App_selected_expiry(ss, expirations, clicked) ==
    LET ss1 == IF ss.selected_expiry = None
               THEN [ss EXCEPT !.selected_expiry = Some(expirations[1])]
               ELSE ss
        ss2 == IF clicked # None /\ clicked[1] \in Offered(Take(expirations, 15))
               THEN [ss1 EXCEPT !.selected_expiry = clicked]
               ELSE ss1
    IN  [ss |-> ss2, ret |-> ss2.selected_expiry]

\* f"{exp}  ({dte}d)": the label of the dropdown; choice.split("  ")[0] is its date
ExpiryLabel(exp) == <<exp, "(d)">>

\* components.py display_expiry_selector; pick is the row of the dropdown the
\* user chose, 0 when the dropdown is left at its default
display_expiry_selector(ss, expirations, pick) ==
    IF expirations = <<>> THEN [ss |-> ss, ret |-> None]
    ELSE LET remembered == IF ss.selected_expiry # None THEN ss.selected_expiry[1]
                           ELSE expirations[1]
             selected == IF remembered \notin Offered(expirations) THEN expirations[1]
                         ELSE remembered
             options == [i \in 1..Len(Take(expirations, 12)) |-> ExpiryLabel(expirations[i])]
             matches == {i \in 1..Len(options) : options[i][1] = selected}
             default_idx == IF matches = {} THEN 1
                            ELSE CHOOSE i \in matches : \A j \in matches : i <= j
             choice == options[IF pick \in 1..Len(options) THEN pick ELSE default_idx]
             chosen_date == choice[1]
         IN  [ss |-> IF chosen_date # selected
                     THEN [ss EXCEPT !.selected_expiry = Some(chosen_date)]
                     ELSE ss,
              ret |-> Some(chosen_date)]

\* ----- inputs of the expiration selection -----

\* generate_demo_options_data on one day and on the next (8 weekly and 7
\* monthly dates counted from the day of the fetch), and two Yahoo chains
DemoExpirations ==
    <<"2025-06-06", "2025-06-13", "2025-06-20", "2025-06-27", "2025-07-04", "2025-07-11",
      "2025-07-18", "2025-07-25", "2025-07-29", "2025-08-28", "2025-09-27", "2025-10-27",
      "2025-11-26", "2025-12-26", "2026-01-25">>

DemoExpirationsNextDay ==
    <<"2025-06-07", "2025-06-14", "2025-06-21", "2025-06-28", "2025-07-05", "2025-07-12",
      "2025-07-19", "2025-07-26", "2025-07-30", "2025-08-29", "2025-09-28", "2025-10-28",
      "2025-11-27", "2025-12-27", "2026-01-26">>

ExpirationLists ==
    { DemoExpirations, DemoExpirationsNextDay,
      <<"2025-06-06", "2025-06-20", "2025-07-18">>,
      <<"2025-06-20", "2025-07-18", "2025-08-15">> }

ExpiryImpls == {"app", "components"}

\* ----- the expiration selection applied -----

ExpiryInit ==
    /\ impl \in ExpiryImpls
    /\ session_state = [paper_portfolio |-> None, paper_trading_enabled |-> None,
                        selected_expiry |-> None]
    /\ last_error = None
    /\ analysis = NoCall

\* app.py main: one refresh, with at most one expiry button clicked
AppExpiry ==
    /\ impl = "app"
    /\ \E expirations \in ExpirationLists :
       \E clicked \in {None} \cup {Some(e) : e \in Offered(expirations)} :
          LET r == App_selected_expiry(session_state, expirations, clicked)
          IN  /\ session_state' = r.ss
              /\ analysis' = Applied("main", "app", <<expirations>>, <<r.ret>>)
    /\ UNCHANGED <<impl, last_error>>

\* components.py: one refresh of the page that shows the dropdown; an empty
\* chain shows the warning instead
ComponentsExpiry ==
    /\ impl = "components"
    /\ \E expirations \in ExpirationLists \cup {<<>>} :
       \E pick \in 0..Len(Take(expirations, 12)) :
          LET r == display_expiry_selector(session_state, expirations, pick)
          IN  /\ session_state' = r.ss
              /\ analysis' = Applied("display_expiry_selector", "components",
                                     <<expirations>>, <<r.ret>>)
    /\ UNCHANGED <<impl, last_error>>

ExpiryNext == AppExpiry \/ ComponentsExpiry

ExpirySpec == ExpiryInit /\ [][ExpiryNext]_vars

(***************************************************************************)
(* Claims about the expiration selection (under ExpirySpec)                *)
(***************************************************************************)
\* a refresh has chosen the expiration of a chain that offers some
ExpiryChosen ==
    /\ analysis.fn \in {"main", "display_expiry_selector"}
    /\ analysis.args[1] # <<>>

\* C29: the expiration used for strike selection is always one of the
\* expirations of the current chain; when the remembered selection is no
\* longer offered, an offered expiration is used instead.
C29_ExpiryOffered ==
    ExpiryChosen =>
        /\ analysis.ret[1] # None
        /\ analysis.ret[1][1] \in Offered(analysis.args[1])

(***************************************************************************)
(* The session with its account actions: the initialisation, opens and     *)
(* closes of Spec, the Enable Paper Trading checkbox of app.py's main and  *)
(* the Reset Account button of paper_trading_ui.py.  The session           *)
(* dictionary has one more key here, confirm_reset (None: not set).        *)
(***************************************************************************)
\* the initialisation a refresh of the session's ledger starts with
InitializeOf(ss) ==
    CASE impl = "paper" -> Paper_initialize_paper_trading(ss)
      [] impl = "paper_trading" -> PT_initialize_paper_trading(ss)
      [] impl = "app" -> init_paper_trading(ss)

\* paper_trading_ui.py display_paper_trading_settings: a click on Reset Account
reset_account(ss) ==
    IF ss.confirm_reset = Some(TRUE)
    THEN [ss EXCEPT !.paper_portfolio = Some(PT_init(INITIAL_CASH)),
                    !.confirm_reset = Some(FALSE)]
    ELSE [ss EXCEPT !.confirm_reset = Some(TRUE)]

SessionInit ==
    /\ impl \in Impls
    /\ session_state = [paper_portfolio |-> None, paper_trading_enabled |-> None,
                        confirm_reset |-> None]
    /\ last_error = None
    /\ analysis = NoCall

\* app.py main: the Enable Paper Trading checkbox, read on a refresh
SetEnabled ==
    /\ impl = "paper_trading" /\ session_state.paper_trading_enabled # None
    /\ \E paper_enabled \in BOOLEAN :
          session_state' = [session_state EXCEPT !.paper_trading_enabled = Some(paper_enabled)]
    /\ last_error' = None
    /\ UNCHANGED <<impl, analysis>>

\* paper_trading_ui.py: the Reset Account button of the settings tab
ResetAccount ==
    /\ impl = "paper_trading" /\ HasPortfolio(session_state)
    /\ session_state' = reset_account(session_state)
    /\ last_error' = None
    /\ UNCHANGED <<impl, analysis>>

SessionNext ==
    \/ Initialize
    \/ PaperOpen
    \/ PaperClose
    \/ PTOpen
    \/ PTClose
    \/ AppOpen
    \/ AppClose
    \/ SetEnabled
    \/ ResetAccount

SessionSpec == SessionInit /\ [][SessionNext]_vars

(***************************************************************************)
(* Claims about the initialisation of the session (under SessionSpec)      *)
(***************************************************************************)
\* the portfolio has seen a trade
Traded(ss) == HasPortfolio(ss) /\ Len(OpenOf(ss)) + Len(ClosedOf(ss)) > 0

IdempotentStep ==
    /\ Ready' =>
          /\ InitializeOf(session_state').paper_portfolio = session_state'.paper_portfolio
          /\ session_state'.paper_trading_enabled # None =>
                InitializeOf(session_state') = session_state'
          /\ InitializeOf(InitializeOf(session_state')) = InitializeOf(session_state')
    /\ (Traded(session_state) /\ ~Traded(session_state')) =>
          /\ session_state.confirm_reset = Some(TRUE)
          /\ session_state'.confirm_reset = Some(FALSE)

\* C30: initialize_paper_trading / init_paper_trading creates the portfolio
\* only when the session has none: called again in any state reached by opens
\* and closes it leaves cash, open positions, closed history and the
\* paper_trading_enabled flag as they are, and a portfolio that has traded is
\* replaced by a fresh one only by the second of two clicks on Reset Account.
C30_InitIdempotent == [][IdempotentStep]_vars

\* C30 witness: after a reset the account has traded again, with paper trading
\* switched on.
C30_Witness ==
    /\ impl = "paper_trading" /\ Ready
    /\ session_state.confirm_reset = Some(FALSE)
    /\ session_state.paper_trading_enabled = Some(TRUE)
    /\ Len(OpenOf(session_state)) >= 1
    /\ Len(ClosedOf(session_state)) >= 1

====
